---- MODULE Spec2Model ----
(***************************************************************************)
(* Model of the nowhere-actors runtime: the actor core (mailbox, address,  *)
(* context, task loop), the actor system (shutdown broadcast, tracked      *)
(* tasks, graceful shutdown) and the builder that wires them.              *)
(*                                                                         *)
(* Part I  (specification Spec): one actor with a generic handler, its     *)
(*          bounded mailbox and the addresses that feed it.                *)
(* Part II (specification SysSpec): the wired system of a requester actor  *)
(*          and the rate limiter it calls, run by the Builder.             *)
(* Part III (specification RegSpec): the Registry and the addresses the    *)
(*          Builder publishes by name.                                     *)
(* Part IV (specification RateSpec): the rate limiter's token buckets and  *)
(*          its detached waiter tasks, against a clock.                    *)
(* Part V (specification StoreSpec): the persistence actor's write tasks,  *)
(*          write permit, read tasks and watcher lists.                    *)
(* Part VI (specification SupSpec): supervise, the restart loop with       *)
(*          exponential backoff around a fallible unit.                    *)
(* Part VII (specification FairCfgSpec): expand_env_in_value of            *)
(*          nowhere-config, the ${VAR} expansion of a configuration value. *)
(***************************************************************************)
EXTENDS Naturals, Integers, Sequences, FiniteSets, TLC

\* ------------------------------------------------------------------ bounds
\* Largest mailbox capacity tried (mpsc::channel panics on capacity 0).
MaxCap == 2
\* Address ids 1..MaxAddrs: 1 is the ActorHandle / Reserved address, the
\* others are clones of it.
MaxAddrs == 2
\* Messages created through the addresses, in total.
MaxMsgs == 3
\* Shutdown signals broadcast.
MaxSignals == 1
\* Messages created in the runs checked for liveness (FairSpec).
LiveMsgs == 2

AddrIds == 1 .. MaxAddrs
NoMsg == << >>
\* A message is <<address id, sequence number on that address>>.
Msgs == AddrIds \X (1 .. MaxMsgs)

VARIABLES
    pc,          \* task position: "none", "reserved", "select", "handle", "done"
    cap,         \* capacity the mailbox was created with
    mailbox,     \* queued messages, oldest first
    rxOpen,      \* the mpsc receiver exists (not yet dropped with the task)
    held,        \* address ids held outside the task
    used,        \* address ids ever created
    ctxAddr,     \* the task's Context holds its clone of the address
    ctxStop,     \* Context::stop flag
    shutdownRx,  \* the task was given Some(broadcast receiver)
    sigPending,  \* signals waiting in that receiver
    active,      \* messages whose handle call has started and not returned
    join,        \* JoinHandle output: "pending", "ok", "err"
    hres,        \* what the last returned handle call returned: "none", "ok", "err"
    call,        \* per address: the send future in flight, if any
    last,        \* per address: the last completed send / try_send
    nmsgs,       \* messages created so far
    nsent,       \* per address: messages created through it
    accepted,    \* messages whose send / try_send returned Ok
    handled,     \* messages passed to handle, in call order
    preStart     \* messages queued before Reserved::start and not yet handled

coreVars == << pc, cap, mailbox, rxOpen, held, used, ctxAddr, ctxStop,
               shutdownRx, sigPending, active, join, hres, call, last,
               nmsgs, nsent, accepted, handled, preStart >>

\* The wired system (Part II).
Actors == {"rate", "llm"}
VARIABLES
    sPc,         \* per actor: "reserved", "select", "handle", "done"
    sJoin,       \* per actor: JoinHandle output "pending", "ok", "err"
    sMailbox,    \* per actor: queued message kinds
    sCur,        \* per actor: the message kind being handled
    sSub,        \* per actor: the task was given Some(shutdown receiver)
    sSig,        \* per actor: signals pending in the receiver made at its start
    hpc,         \* requester's handle call: "none", "sending", "waiting", "generate"
    permit,      \* the Acquire's oneshot: "none", "queued", "waiter", "sent", "dropped"
    tracked,     \* per actor: its JoinSet entry "none", "running", "joined", "aborted"
    gs,          \* Builder: "build", "wait", "joining", "returned"
    gsResult,    \* what graceful_shutdown returned: "none", "ok", "err"
    gsSig,       \* signals pending in run_until_ctrl_c's receiver
    bAddrs,      \* the Builder still holds the published addresses
    nsignals,    \* signals fired through ShutdownHandle::signal
    nwork,       \* messages produced for the requester
    nupserts,    \* Upsert messages produced for the rate limiter
    extFail      \* a handler failed on its own (the LLM client call failed)

sysVars == << sPc, sJoin, sMailbox, sCur, sSub, sSig, hpc, permit, tracked, gs,
              gsResult, gsSig, bAddrs, nsignals, nwork, nupserts, extFail >>

\* The registry and the Builder's published addresses (Part III).
VARIABLES
    regByName,   \* Registry.by_name: key -> stored value (type and identity)
    bldAddrs,    \* Builder.addrs: name -> stored address (type and identity)
    reservedSet, \* the Reserved handles returned by Builder::reserve
    regLog,      \* every insert made so far, oldest first
    nvals        \* values (addresses) created so far

regVars == << regByName, bldAddrs, reservedSet, regLog, nvals >>

\* The rate limiter's buckets (Part IV).
VARIABLES
    now,         \* the monotonic clock, in ticks
    buckets,     \* RateLimiter.buckets: key -> bucket, or NoBucket
    rlPc,        \* the limiter's task: "running" or "panicked"
    waiters,     \* detached waiter tasks that have not replied yet
    permits,     \* the Acquires whose waiter has done its reply.send
    nacq,        \* Acquire messages handled so far
    nups         \* Upsert messages handled so far

rateVars == << now, buckets, rlPc, waiters, permits, nacq, nups >>

\* The persistence actor (Part V).
VARIABLES
    stPc,        \* the store actor's task: "running" or "stopped"
    stMailbox,   \* the store actor's mailbox
    stWatchers,  \* StoreActor.watchers: claim -> list of reply senders
    stW,         \* per watcher: its claim, the state of its receiver, and
                 \* whether a relevant write for its claim has completed
                 \* since it was listed
    stOwed,      \* watchers listed when a notification for their claim was enqueued
    stTasks,     \* the detached write tasks
    stPermit,    \* write_limit: the task holding the permit, or 0
    stRead,      \* the detached read task
    stSent,      \* write and watch messages sent so far
    stLastFire,  \* the senders the latest ArtifactUpserted sent to, in order
    stLogged     \* a write task has logged store.*.failed

storeVars == << stPc, stMailbox, stWatchers, stW, stOwed, stTasks, stPermit,
                stRead, stSent, stLastFire, stLogged >>

\* supervise (Part VI).
VARIABLES
    supPc,       \* "loop", "select", "sleeping" or "returned"
    supFut,      \* the run-once future: "none", "pending", "ok", "err", "dropped"
    supBackoff,  \* backoff, in ms
    supSleep,    \* duration of the sleep in progress or last done, in ms
    supSig,      \* shutdown.recv() is ready: a signal is queued in the receiver
    supSigAt,    \* where supervise was when the signal was broadcast
    supCalls,    \* calls of the factory, counted up to MaxRestarts + 1
    supRestarts, \* run-once failures so far, counted up to MaxRestarts
    supResult    \* what supervise returned

supVars == << supPc, supFut, supBackoff, supSleep, supSig, supSigAt, supCalls,
              supRestarts, supResult >>

\* expand_env_in_value (Part VII).
VARIABLES
    cfgEnv,      \* the process environment: variable -> value, or unset
    cfgIn,       \* the JSON value as given: its leaves in traversal order
    cfgVal,      \* the JSON value as it is now
    cfgIdx,      \* the leaf being visited
    cfgCur,      \* cur, the string being expanded
    cfgPass,     \* calls of shellexpand::env made for the current string
    cfgPc        \* "visit", "loop" or "done"

cfgVars == << cfgEnv, cfgIn, cfgVal, cfgIdx, cfgCur, cfgPass, cfgPc >>

\* The wired actor graph (Part VIII).
VARIABLES
    gBox,        \* mailbox of each actor: the queued messages, oldest first
    gRun,        \* steps left in the handle call of each actor; << >>: in recv
    gWaiters,    \* requesters whose waiter task of the limiter has not fired
    gReads,      \* requesters whose read task of the store has not replied
    gAcq,        \* write tasks of the store waiting for the write permit, per kind
    gHold,       \* the write permit: "free", or the stage of the task holding it
    gPend,       \* detached tasks of the TUI about to send it a built search query
    gIn          \* commands the user has entered

graphVars == << gBox, gRun, gWaiters, gReads, gAcq, gHold, gPend, gIn >>

\* What a step of Part I leaves alone.
notCore == << sysVars, regVars, rateVars, storeVars, supVars,
            cfgVars, graphVars >>
\* What a step of Part II leaves alone.
notSys == << coreVars, regVars, rateVars, storeVars, supVars,
            cfgVars, graphVars >>
\* What a step of Part III leaves alone.
notReg == << coreVars, sysVars, rateVars, storeVars, supVars,
            cfgVars, graphVars >>
\* What a step of Part IV leaves alone.
notRate == << coreVars, sysVars, regVars, storeVars, supVars,
            cfgVars, graphVars >>
\* What a step of Part V leaves alone.
notStore == << coreVars, sysVars, regVars, rateVars, supVars,
            cfgVars, graphVars >>
\* What a step of Part VI leaves alone.
notSup == << coreVars, sysVars, regVars, rateVars, storeVars,
            cfgVars, graphVars >>
\* What a step of Part VIII leaves alone.
notGraph == << coreVars, sysVars, regVars, rateVars, storeVars, supVars,
              cfgVars >>
\* What a step of Part VII leaves alone.
notCfg == << coreVars, sysVars, regVars, rateVars, storeVars,
            supVars, graphVars >>

vars == << coreVars, sysVars, regVars, rateVars, storeVars, supVars,
            cfgVars, graphVars >>

Idle == [st |-> "idle", msg |-> NoMsg]
NoOp == [op |-> "none", msg |-> NoMsg, ok |-> TRUE, ret |-> NoMsg,
         full |-> FALSE, closed |-> FALSE]

\* ------------------------------------------------- the mailbox (tokio mpsc)
\* Live senders of the channel: the addresses outside plus the Context's.
Senders == Cardinality(held) + (IF ctxAddr THEN 1 ELSE 0)

\* Addr::try_send: Err(msg) when the receiver is gone or the queue is full.
\* (Faulty variants: no capacity check; a message sent before the start is
\* not kept; newest message first.)
ChanTrySendUnbounded(q, c, open, m) ==
    IF ~open THEN [ok |-> FALSE, q |-> q, ret |-> m]
    ELSE [ok |-> TRUE, q |-> Append(q, m), ret |-> NoMsg]
ChanTrySendLostBeforeStart(q, c, open, m) ==
    IF ~open \/ Len(q) >= c
    THEN [ok |-> FALSE, q |-> q, ret |-> m]
    ELSE [ok |-> TRUE, q |-> IF pc = "reserved" THEN q ELSE Append(q, m),
          ret |-> NoMsg]
ChanTrySendFront(q, c, open, m) ==
    IF ~open \/ Len(q) >= c
    THEN [ok |-> FALSE, q |-> q, ret |-> m]
    ELSE [ok |-> TRUE, q |-> << m >> \o q, ret |-> NoMsg]
ChanTrySend(q, c, open, m) ==
    IF ~open \/ Len(q) >= c
    THEN [ok |-> FALSE, q |-> q, ret |-> m]
    ELSE [ok |-> TRUE, q |-> Append(q, m), ret |-> NoMsg]

\* Addr::send resolves once the receiver is gone (Err) or a slot is free.
SendReady(q, c, open) == ~open \/ Len(q) < c

\* Addr::capacity: Sender::max_capacity.
Capacity == cap

\* rx.recv(): Some(head) while a message is queued, None once the queue is
\* empty and every sender is dropped, pending otherwise.
RecvSome(q) == q # << >>
RecvNone(q, senders) == q = << >> /\ senders = 0

\* ------------------------------------------------------------ the task loop
\* What the loop does after handle returns: Err ends the task with Err, a set
\* stop flag ends it with Ok, otherwise it selects again.
\* (Faulty variants: the stop flag is not looked at; an Err does not end the task.)
AfterHandleNoStop(res, stop) ==
    IF res = "err" THEN "err" ELSE "continue"
AfterHandleErrContinues(res, stop) ==
    IF stop THEN "ok" ELSE "continue"
AfterHandle(res, stop) ==
    IF res = "err" THEN "err"
    ELSE IF stop THEN "ok"
    ELSE "continue"

\* The task ends: its future is dropped, and with it the receiver (queued
\* messages are dropped), the Context and its address.
TaskExit(res) ==
    /\ pc' = "done"
    /\ join' = res
    /\ rxOpen' = FALSE
    /\ mailbox' = << >>
    /\ ctxAddr' = FALSE
    /\ preStart' = << >>

CoreInit ==
    /\ pc = "none"
    /\ cap = 0
    /\ mailbox = << >>
    /\ rxOpen = FALSE
    /\ held = {}
    /\ used = {}
    /\ ctxAddr = FALSE
    /\ ctxStop = FALSE
    /\ shutdownRx = FALSE
    /\ sigPending = 0
    /\ active = {}
    /\ join = "pending"
    /\ hres = "none"
    /\ call = [a \in AddrIds |-> Idle]
    /\ last = [a \in AddrIds |-> NoOp]
    /\ nmsgs = 0
    /\ nsent = [a \in AddrIds |-> 0]
    /\ accepted = {}
    /\ handled = << >>
    /\ preStart = << >>

\* spawn_actor / spawn_actor_with_shutdown(actor, capacity, shutdown)
SpawnActor(c, sd) ==
    /\ pc = "none"
    /\ cap' = c
    /\ rxOpen' = TRUE
    /\ held' = {1}
    /\ used' = {1}
    /\ ctxAddr' = TRUE
    /\ shutdownRx' = sd
    /\ pc' = "select"
    /\ UNCHANGED << mailbox, ctxStop, sigPending, active, join, hres, call,
                    last, nmsgs, nsent, accepted, handled >>
    /\ UNCHANGED preStart
    /\ UNCHANGED notCore

\* spawn_actor_reserved(name, capacity)
SpawnActorReserved(c) ==
    /\ pc = "none"
    /\ cap' = c
    /\ rxOpen' = TRUE
    /\ held' = {1}
    /\ used' = {1}
    /\ pc' = "reserved"
    /\ UNCHANGED << mailbox, ctxAddr, ctxStop, shutdownRx, sigPending, active,
                    join, hres, call, last, nmsgs, nsent, accepted, handled >>
    /\ UNCHANGED preStart
    /\ UNCHANGED notCore

\* Reserved::start / Reserved::start_with_shutdown(actor, shutdown)
StartWithShutdown(sd) ==
    /\ pc = "reserved"
    /\ ctxAddr' = TRUE
    /\ shutdownRx' = sd
    /\ pc' = "select"
    /\ UNCHANGED << cap, mailbox, rxOpen, held, used, ctxStop, sigPending,
                    active, join, hres, call, last, nmsgs, nsent, accepted,
                    handled >>
    /\ preStart' = mailbox
    /\ UNCHANGED notCore

\* select! arm `_ = shutdown_rx.recv() => break`
CanTakeShutdown == pc = "select"
SelectShutdown ==
    /\ CanTakeShutdown
    /\ shutdownRx
    /\ sigPending > 0
    /\ sigPending' = sigPending - 1
    /\ TaskExit("ok")
    /\ UNCHANGED << cap, held, used, ctxStop, shutdownRx, active, hres, call,
                    last, nmsgs, nsent, accepted, handled >>
    /\ UNCHANGED notCore

\* select! arm `maybe_msg = rx.recv()` (and `while let Some(msg) = rx.recv()`)
\* (Faulty variants: receive without awaiting the handle call; peek without popping.)
CanRecvAnywhere == pc \in {"select", "handle"}
CanRecv == pc = "select"
DequeueKeep(q) == q
Dequeue(q) == Tail(q)
SelectRecv ==
    /\ CanRecv
    /\ IF RecvSome(mailbox)
       THEN /\ mailbox' = Dequeue(mailbox)
            /\ active' = active \cup {Head(mailbox)}
            /\ handled' = Append(handled, Head(mailbox))
            /\ pc' = "handle"
            /\ preStart' = IF preStart # << >> THEN Tail(preStart) ELSE << >>
            /\ UNCHANGED << rxOpen, ctxAddr, join >>
       ELSE /\ RecvNone(mailbox, Senders)
            /\ TaskExit("ok")
            /\ UNCHANGED << active, handled >>
    /\ UNCHANGED << cap, held, used, ctxStop, shutdownRx, sigPending, hres,
                    call, last, nmsgs, nsent, accepted >>
    /\ UNCHANGED notCore

\* actor.handle(msg, &mut ctx).await returns res; the handler called
\* ctx.stop() during the call iff stopCalled.
HandleReturn(res, stopCalled) ==
    /\ pc = "handle"
    /\ active' = active \ {handled[Len(handled)]}
    /\ ctxStop' = (ctxStop \/ stopCalled)
    /\ hres' = res
    /\ LET next == AfterHandle(res, ctxStop') IN
         IF next = "continue"
         THEN /\ pc' = "select"
              /\ UNCHANGED << join, rxOpen, mailbox, ctxAddr, preStart >>
         ELSE TaskExit(next)
    /\ UNCHANGED << cap, held, used, shutdownRx, sigPending, call, last,
                    nmsgs, nsent, accepted, handled >>
    /\ UNCHANGED notCore

\* ShutdownHandle::signal / ActorSystem::signal_shutdown: broadcast send.
Signal ==
    /\ shutdownRx
    /\ pc \in {"select", "handle"}
    /\ sigPending < MaxSignals
    /\ sigPending' = sigPending + 1
    /\ UNCHANGED << pc, cap, mailbox, rxOpen, held, used, ctxAddr, ctxStop,
                    shutdownRx, active, join, hres, call, last, nmsgs, nsent,
                    accepted, handled >>
    /\ UNCHANGED preStart
    /\ UNCHANGED notCore

\* Addr::clone: b is the next unused address id.
CloneAddr(a, b) ==
    /\ a \in held
    /\ b \notin used
    /\ \A x \in AddrIds : x < b => x \in used
    /\ held' = held \cup {b}
    /\ used' = used \cup {b}
    /\ UNCHANGED << pc, cap, mailbox, rxOpen, ctxAddr, ctxStop, shutdownRx,
                    sigPending, active, join, hres, call, last, nmsgs, nsent,
                    accepted, handled >>
    /\ UNCHANGED preStart
    /\ UNCHANGED notCore

\* drop(addr). Address 1 is a field of Reserved until the actor is started.
DropAddr(a) ==
    /\ a \in held
    /\ call[a].st = "idle"
    /\ ~(a = 1 /\ pc = "reserved")
    /\ held' = held \ {a}
    /\ UNCHANGED << pc, cap, mailbox, rxOpen, used, ctxAddr, ctxStop,
                    shutdownRx, sigPending, active, join, hres, call, last,
                    nmsgs, nsent, accepted, handled >>
    /\ UNCHANGED preStart
    /\ UNCHANGED notCore

NewMsg(a) == << a, nsent[a] + 1 >>

\* addr.try_send(msg)
TrySend(a) ==
    /\ a \in held
    /\ call[a].st = "idle"
    /\ nmsgs < MaxMsgs
    /\ LET m == NewMsg(a)
           r == ChanTrySend(mailbox, cap, rxOpen, m) IN
         /\ mailbox' = r.q
         /\ last' = [last EXCEPT ![a] =
                [op |-> "try_send", msg |-> m, ok |-> r.ok, ret |-> r.ret,
                 full |-> (Len(mailbox) >= cap), closed |-> ~rxOpen]]
         /\ accepted' = IF r.ok THEN accepted \cup {m} ELSE accepted
    /\ nmsgs' = nmsgs + 1
    /\ nsent' = [nsent EXCEPT ![a] = @ + 1]
    /\ UNCHANGED << pc, cap, rxOpen, held, used, ctxAddr, ctxStop, shutdownRx,
                    sigPending, active, join, hres, call, handled >>
    /\ UNCHANGED preStart
    /\ UNCHANGED notCore

\* addr.send(msg): the future is created ...
SendStart(a) ==
    /\ a \in held
    /\ call[a].st = "idle"
    /\ nmsgs < MaxMsgs
    /\ call' = [call EXCEPT ![a] = [st |-> "waiting", msg |-> NewMsg(a)]]
    /\ nmsgs' = nmsgs + 1
    /\ nsent' = [nsent EXCEPT ![a] = @ + 1]
    /\ UNCHANGED << pc, cap, mailbox, rxOpen, held, used, ctxAddr, ctxStop,
                    shutdownRx, sigPending, active, join, hres, last, accepted,
                    handled >>
    /\ UNCHANGED preStart
    /\ UNCHANGED notCore

\* ... and resolves when a slot is free (Ok) or the receiver is gone (Err).
SendResolve(a) ==
    /\ call[a].st = "waiting"
    /\ SendReady(mailbox, cap, rxOpen)
    /\ LET m == call[a].msg
           r == ChanTrySend(mailbox, cap, rxOpen, m) IN
         /\ mailbox' = r.q
         /\ last' = [last EXCEPT ![a] =
                [op |-> "send", msg |-> m, ok |-> r.ok, ret |-> r.ret,
                 full |-> FALSE, closed |-> ~rxOpen]]
         /\ accepted' = IF r.ok THEN accepted \cup {m} ELSE accepted
    /\ call' = [call EXCEPT ![a] = Idle]
    /\ UNCHANGED << pc, cap, rxOpen, held, used, ctxAddr, ctxStop, shutdownRx,
                    sigPending, active, join, hres, nmsgs, nsent, handled >>
    /\ UNCHANGED preStart
    /\ UNCHANGED notCore

CoreNext ==
    \/ \E c \in 1 .. MaxCap, sd \in BOOLEAN : SpawnActor(c, sd)
    \/ \E c \in 1 .. MaxCap : SpawnActorReserved(c)
    \/ \E sd \in BOOLEAN : StartWithShutdown(sd)
    \/ SelectShutdown
    \/ SelectRecv
    \/ \E res \in {"ok", "err"}, st \in BOOLEAN : HandleReturn(res, st)
    \/ Signal
    \/ \E a, b \in AddrIds : CloneAddr(a, b)
    \/ \E a \in AddrIds : DropAddr(a)
    \/ \E a \in AddrIds : TrySend(a)
    \/ \E a \in AddrIds : SendStart(a)
    \/ \E a \in AddrIds : SendResolve(a)


\* =================================================== Part II: wired system
\* The Builder has reserved the rate limiter and a requester (LlmActor,
\* ChatLlmActor and TwitterSearchActor all call the limiter the same way) and
\* published their addresses; build code starts them, outside producers feed
\* them, and run_until_ctrl_c / graceful_shutdown ends the run.

\* Mailbox capacity of the wired actors.
SysCap == 1
\* Messages produced for the requester, and Upserts for the limiter.
MaxWork == 2
MaxUpserts == 1
\* Signals fired through a ShutdownHandle (graceful_shutdown fires its own).
MaxSysSignals == 1

SysInit ==
    /\ sPc = [a \in Actors |-> "reserved"]
    /\ sJoin = [a \in Actors |-> "pending"]
    /\ sMailbox = [a \in Actors |-> << >>]
    /\ sCur = [a \in Actors |-> "none"]
    /\ sSub = [a \in Actors |-> FALSE]
    /\ sSig = [a \in Actors |-> 0]
    /\ hpc = "none"
    /\ permit = "none"
    /\ tracked = [a \in Actors |-> "none"]
    /\ gs = "build"
    /\ gsResult = "none"
    /\ gsSig = 0
    /\ bAddrs = TRUE
    /\ nsignals = 0
    /\ nwork = 0
    /\ nupserts = 0
    /\ extFail = FALSE

SysStarted(a) == sPc[a] # "reserved"
SysRunning(a) == sPc[a] \in {"select", "handle"}
\* The receiver exists from the reservation until the task ends.
SysRxOpen(a) == sPc[a] # "done"

\* Senders of a's mailbox: the Builder's published address, the task's own
\* Context, and the requester's field holding the limiter's address.
SysSenders(a) ==
    (IF bAddrs THEN 1 ELSE 0)
    + (IF SysRunning(a) THEN 1 ELSE 0)
    + (IF a = "rate" /\ sPc["llm"] # "done" THEN 1 ELSE 0)

\* broadcast::Sender::send: one more pending signal in every receiver that
\* exists; a started actor's receiver was made by shutdown_notifier().
\* (Faulty variant: the signal is also kept for actors not yet started.)
BroadcastAlsoToReserved(sig) ==
    [a \in Actors |-> IF sig[a] <= MaxSysSignals THEN sig[a] + 1 ELSE sig[a]]
Broadcast(sig) ==
    [a \in Actors |-> IF SysStarted(a) /\ sig[a] <= MaxSysSignals
                      THEN sig[a] + 1 ELSE sig[a]]

\* Builder::start_reserved passes Some(shutdown_rx) to start_with_shutdown.
\* (Faulty variant: the receiver is not passed on.)
StartShutdownArgNone == FALSE
StartShutdownArg == TRUE

\* Builder::start_reserved(r, actor)
StartReserved(a) ==
    /\ gs = "build"
    /\ sPc[a] = "reserved"
    /\ sPc' = [sPc EXCEPT ![a] = "select"]
    /\ sSub' = [sSub EXCEPT ![a] = StartShutdownArg]
    /\ tracked' = [tracked EXCEPT ![a] = "running"]
    /\ UNCHANGED << sJoin, sMailbox, sCur, sSig, hpc, permit, gs, gsResult,
                    gsSig, bAddrs, nsignals, nwork, nupserts, extFail >>
    /\ UNCHANGED notSys

\* The task of a ends: its receiver and the messages queued in it are dropped,
\* and with a queued Acquire the oneshot sender it carries.
SysTaskExit(a, res) ==
    /\ sPc' = [sPc EXCEPT ![a] = "done"]
    /\ sJoin' = [sJoin EXCEPT ![a] = res]
    /\ sMailbox' = [sMailbox EXCEPT ![a] = << >>]
    /\ sCur' = [sCur EXCEPT ![a] = "none"]

\* An Acquire, and the reply sender it carries, is among the messages dropped
\* with the limiter's receiver. (Faulty variant: the queued sender is kept
\* alive.)
AcquireQueuedNever == FALSE
AcquireQueued == \E i \in 1 .. Len(sMailbox["rate"]) : sMailbox["rate"][i] = "Acquire"

\* select! arm `_ = shutdown_rx.recv() => break`
SysSelectShutdown(a) ==
    /\ sPc[a] = "select"
    /\ sSub[a]
    /\ sSig[a] > 0
    /\ sSig' = [sSig EXCEPT ![a] = @ - 1]
    /\ SysTaskExit(a, "ok")
    /\ permit' = IF a = "rate" /\ AcquireQueued THEN "dropped" ELSE permit
    /\ UNCHANGED << sSub, hpc, tracked, gs, gsResult, gsSig, bAddrs, nsignals,
                    nwork, nupserts, extFail >>
    /\ UNCHANGED notSys

\* select! arm `maybe_msg = rx.recv()`: the handle call starts.  The
\* requester's handler begins with acquire_rate_permit: rate_limiter.send(..).
SysSelectRecv(a) ==
    /\ sPc[a] = "select"
    /\ IF RecvSome(sMailbox[a])
       THEN /\ sMailbox' = [sMailbox EXCEPT ![a] = Dequeue(@)]
            /\ sCur' = [sCur EXCEPT ![a] = Head(sMailbox[a])]
            /\ sPc' = [sPc EXCEPT ![a] = "handle"]
            /\ hpc' = IF a = "llm" THEN "sending" ELSE hpc
            /\ UNCHANGED sJoin
       ELSE /\ RecvNone(sMailbox[a], SysSenders(a))
            /\ SysTaskExit(a, "ok")
            /\ UNCHANGED hpc
    /\ UNCHANGED << sSub, sSig, permit, tracked, gs, gsResult, gsSig, bAddrs,
                    nsignals, nwork, nupserts, extFail >>
    /\ UNCHANGED notSys

\* The handle call of a returns res; these handlers never call ctx.stop().
SysHandleReturn(a, res) ==
    LET next == AfterHandle(res, FALSE) IN
      IF next = "continue"
      THEN /\ sPc' = [sPc EXCEPT ![a] = "select"]
           /\ sCur' = [sCur EXCEPT ![a] = "none"]
           /\ UNCHANGED << sJoin, sMailbox >>
      ELSE SysTaskExit(a, next)

\* RateLimiter::handle: Upsert stores the bucket; Acquire computes the wait and
\* hands the reply sender to a detached waiter task.  Always Ok.
RateHandle ==
    /\ sPc["rate"] = "handle"
    /\ SysHandleReturn("rate", "ok")
    /\ permit' = IF sCur["rate"] = "Acquire" THEN "waiter" ELSE permit
    /\ UNCHANGED << sSub, sSig, hpc, tracked, gs, gsResult, gsSig, bAddrs,
                    nsignals, nwork, nupserts, extFail >>
    /\ UNCHANGED notSys

\* The detached waiter: sleep(wait), then `let _ = reply.send(RatePermit)`.
WaiterFire ==
    /\ permit = "waiter"
    /\ permit' = "sent"
    /\ UNCHANGED << sPc, sJoin, sMailbox, sCur, sSub, sSig, hpc, tracked, gs,
                    gsResult, gsSig, bAddrs, nsignals, nwork, nupserts, extFail >>
    /\ UNCHANGED notSys

\* acquire_rate_permit: rate_limiter.send(Acquire{..}).await resolves; Err
\* ("rate limiter actor dropped") makes handle return Err.
SendAcquire ==
    /\ sPc["llm"] = "handle"
    /\ hpc = "sending"
    /\ SendReady(sMailbox["rate"], SysCap, SysRxOpen("rate"))
    /\ LET r == ChanTrySend(sMailbox["rate"], SysCap, SysRxOpen("rate"), "Acquire") IN
         IF r.ok
         THEN /\ sMailbox' = [sMailbox EXCEPT !["rate"] = r.q]
              /\ permit' = "queued"
              /\ hpc' = "waiting"
              /\ UNCHANGED << sPc, sJoin, sCur >>
         ELSE /\ SysHandleReturn("llm", "err")
              /\ hpc' = "none"
              /\ UNCHANGED permit
    /\ UNCHANGED << sSub, sSig, tracked, gs, gsResult, gsSig, bAddrs, nsignals,
                    nwork, nupserts, extFail >>
    /\ UNCHANGED notSys

\* acquire_rate_permit: permit_rx.await resolves; a dropped sender is Err
\* ("failed to receive rate permit from limiter") and handle returns Err.
PermitResolve ==
    /\ sPc["llm"] = "handle"
    /\ hpc = "waiting"
    /\ permit \in {"sent", "dropped"}
    /\ IF permit = "sent"
       THEN /\ hpc' = "generate"
            /\ UNCHANGED << sPc, sJoin, sMailbox, sCur >>
       ELSE /\ SysHandleReturn("llm", "err")
            /\ hpc' = "none"
    /\ permit' = "none"
    /\ UNCHANGED << sSub, sSig, tracked, gs, gsResult, gsSig, bAddrs, nsignals,
                    nwork, nupserts, extFail >>
    /\ UNCHANGED notSys

\* llm_client.generate(..).await? and the rest of handle: Ok, or the client's
\* own error.
Generate(res) ==
    /\ sPc["llm"] = "handle"
    /\ hpc = "generate"
    /\ SysHandleReturn("llm", res)
    /\ hpc' = "none"
    /\ extFail' = (extFail \/ res = "err")
    /\ UNCHANGED << sSub, sSig, permit, tracked, gs, gsResult, gsSig, bAddrs,
                    nsignals, nwork, nupserts >>
    /\ UNCHANGED notSys

\* An outside producer (TUI, Twitter actor) try_sends work to the requester.
SendWork ==
    /\ nwork < MaxWork
    /\ nwork' = nwork + 1
    /\ sMailbox' = [sMailbox EXCEPT !["llm"] =
            ChanTrySend(@, SysCap, SysRxOpen("llm"), "Work").q]
    /\ UNCHANGED << sPc, sJoin, sCur, sSub, sSig, hpc, permit, tracked, gs,
                    gsResult, gsSig, bAddrs, nsignals, nupserts, extFail >>
    /\ UNCHANGED notSys

\* Build code provisions a bucket: rate_addr.try_send(RateMsg::Upsert{..}).
Provision ==
    /\ nupserts < MaxUpserts
    /\ nupserts' = nupserts + 1
    /\ sMailbox' = [sMailbox EXCEPT !["rate"] =
            ChanTrySend(@, SysCap, SysRxOpen("rate"), "Upsert").q]
    /\ UNCHANGED << sPc, sJoin, sCur, sSub, sSig, hpc, permit, tracked, gs,
                    gsResult, gsSig, bAddrs, nsignals, nwork, extFail >>
    /\ UNCHANGED notSys

\* ShutdownHandle::signal / ActorSystem::signal_shutdown
SignalShutdown ==
    /\ nsignals < MaxSysSignals
    /\ nsignals' = nsignals + 1
    /\ sSig' = Broadcast(sSig)
    /\ gsSig' = IF gs = "wait" THEN gsSig + 1 ELSE gsSig
    /\ UNCHANGED << sPc, sJoin, sMailbox, sCur, sSub, hpc, permit, tracked, gs,
                    gsResult, bAddrs, nwork, nupserts, extFail >>
    /\ UNCHANGED notSys

AllStarted == \A a \in Actors : SysStarted(a)

\* Builder::run_until_ctrl_c: subscribe, then wait for ctrl-c or a signal.
RunUntilCtrlC ==
    /\ gs = "build"
    /\ AllStarted
    /\ gs' = "wait"
    /\ UNCHANGED << sPc, sJoin, sMailbox, sCur, sSub, sSig, hpc, permit,
                    tracked, gsResult, gsSig, bAddrs, nsignals, nwork,
                    nupserts, extFail >>
    /\ UNCHANGED notSys

\* ... the wait ends (ctrlC, or a signal is pending): the published addresses
\* and the registry are cleared and ActorSystem::graceful_shutdown fires the
\* signal before its first join_next().await.
WaitEnds(ctrlC) ==
    /\ gs = "wait"
    /\ ctrlC \/ gsSig > 0
    /\ bAddrs' = FALSE
    /\ sSig' = Broadcast(sSig)
    /\ gs' = "joining"
    /\ UNCHANGED << sPc, sJoin, sMailbox, sCur, sSub, hpc, permit, tracked,
                    gsResult, gsSig, nsignals, nwork, nupserts, extFail >>
    /\ UNCHANGED notSys

\* Builder::graceful_shutdown called directly.
GracefulShutdown ==
    /\ gs = "build"
    /\ AllStarted
    /\ sSig' = Broadcast(sSig)
    /\ gs' = "joining"
    /\ UNCHANGED << sPc, sJoin, sMailbox, sCur, sSub, hpc, permit, tracked,
                    gsResult, gsSig, bAddrs, nsignals, nwork, nupserts, extFail >>
    /\ UNCHANGED notSys

\* `while let Some(res) = self.joinset.join_next().await { res??; }`: a tracked
\* task that has finished is joined; its Err is returned at once, and the
\* JoinSet, dropped with self, aborts the entries still running and discards
\* the results of the finished ones.
JoinNext(a) ==
    /\ gs = "joining"
    /\ tracked[a] = "running"
    /\ sPc[a] = "done"
    /\ IF sJoin[a] = "err"
       THEN /\ tracked' = [b \in Actors |->
                    IF b = a THEN "joined"
                    ELSE IF tracked[b] = "running"
                         THEN (IF sPc[b] = "done" THEN "discarded" ELSE "aborted")
                    ELSE tracked[b]]
            /\ gs' = "returned"
            /\ gsResult' = "err"
       ELSE /\ tracked' = [tracked EXCEPT ![a] = "joined"]
            /\ UNCHANGED << gs, gsResult >>
    /\ UNCHANGED << sPc, sJoin, sMailbox, sCur, sSub, sSig, hpc, permit, gsSig,
                    bAddrs, nsignals, nwork, nupserts, extFail >>
    /\ UNCHANGED notSys

\* join_next() returns None: every entry was joined; Ok(()).
JoinDone ==
    /\ gs = "joining"
    /\ \A a \in Actors : tracked[a] # "running"
    /\ gs' = "returned"
    /\ gsResult' = "ok"
    /\ UNCHANGED << sPc, sJoin, sMailbox, sCur, sSub, sSig, hpc, permit,
                    tracked, gsSig, bAddrs, nsignals, nwork, nupserts, extFail >>
    /\ UNCHANGED notSys

SysNext ==
    \/ \E a \in Actors : StartReserved(a)
    \/ \E a \in Actors : SysSelectShutdown(a)
    \/ \E a \in Actors : SysSelectRecv(a)
    \/ RateHandle
    \/ WaiterFire
    \/ SendAcquire
    \/ PermitResolve
    \/ \E res \in {"ok", "err"} : Generate(res)
    \/ SendWork
    \/ Provision
    \/ SignalShutdown
    \/ RunUntilCtrlC
    \/ \E ctrlC \in BOOLEAN : WaitEnds(ctrlC)
    \/ GracefulShutdown
    \/ \E a \in Actors : JoinNext(a)
    \/ JoinDone


\* ============================= Part III: registry and published addresses
\* Inserts and reservations made, in total.
MaxInserts == 3

Names == {"n1", "n2"}
ActorTypes == {"A", "B"}
\* std::any::type_name::<Addr<A>>()
TypeName(A) == "Addr<" \o A \o ">"
ValueTypes == {TypeName(A) : A \in ActorTypes}
\* insert_addr / get_addr: format!("{}::{}", type_name::<Addr<A>>(), name)
AddrKey(A, n) == TypeName(A) \o "::" \o n
\* Keys used: bare names, and the composed keys.
RegKeys == Names \cup {AddrKey(A, n) : A \in ActorTypes, n \in Names}

\* Option::None of a lookup; stored values are identified by 1, 2, ...
NoneVal == 0
NoEntry == [ty |-> "none", val |-> NoneVal]
Entry(T, v) == [ty |-> T, val |-> v]

\* DashMap / HashMap insert: the entry under the key is replaced.
\* (Faulty variant: an existing entry is kept.)
MapInsertKeepOld(m, k, e) == IF m[k] = NoEntry THEN [m EXCEPT ![k] = e] ELSE m
MapInsert(m, k, e) == [m EXCEPT ![k] = e]

\* map.get(key)?.downcast_ref::<T>().cloned()
Downcast(e, T) == IF e # NoEntry /\ e.ty = T THEN e.val ELSE NoneVal

\* Registry::get_named::<T>(name)
GetNamed(T, k) == Downcast(regByName[k], T)
\* Registry::get_addr::<A>(name)
GetAddr(A, n) == GetNamed(TypeName(A), AddrKey(A, n))
\* Builder::addr::<A>(name)
BuilderAddr(A, n) == Downcast(bldAddrs[n], TypeName(A))

RegInit ==
    /\ regByName = [k \in RegKeys |-> NoEntry]
    /\ bldAddrs = [n \in Names |-> NoEntry]
    /\ reservedSet = {}
    /\ regLog = << >>
    /\ nvals = 0

\* Registry::insert_named(key, value) with a value of type T
InsertNamed(k, T) ==
    /\ nvals < MaxInserts
    /\ nvals' = nvals + 1
    /\ regByName' = MapInsert(regByName, k, Entry(T, nvals + 1))
    /\ regLog' = Append(regLog, [map |-> "reg", key |-> k, ty |-> T, val |-> nvals + 1])
    /\ UNCHANGED << bldAddrs, reservedSet >>
    /\ UNCHANGED notReg

\* Builder::reserve::<A>(name, mailbox): a new mailbox and address, published
\* in Builder.addrs under the name and in the registry by insert_addr.
Reserve(A, n) ==
    /\ nvals < MaxInserts
    /\ nvals' = nvals + 1
    /\ bldAddrs' = MapInsert(bldAddrs, n, Entry(TypeName(A), nvals + 1))
    /\ regByName' = MapInsert(regByName, AddrKey(A, n), Entry(TypeName(A), nvals + 1))
    /\ reservedSet' = reservedSet \cup {[ty |-> A, name |-> n, id |-> nvals + 1]}
    /\ regLog' = regLog \o
          << [map |-> "builder", key |-> n, ty |-> TypeName(A), val |-> nvals + 1],
             [map |-> "reg", key |-> AddrKey(A, n), ty |-> TypeName(A), val |-> nvals + 1] >>
    /\ UNCHANGED notReg

\* Builder::spawn::<A, _>(name, mailbox, new): the actor is started, and its
\* address published in Builder.addrs under the name and in the registry by
\* insert_named::<Addr<A>>(name.to_string(), addr).
BuilderSpawn(A, n) ==
    /\ nvals < MaxInserts
    /\ nvals' = nvals + 1
    /\ bldAddrs' = MapInsert(bldAddrs, n, Entry(TypeName(A), nvals + 1))
    /\ regByName' = MapInsert(regByName, n, Entry(TypeName(A), nvals + 1))
    /\ regLog' = regLog \o
          << [map |-> "builder", key |-> n, ty |-> TypeName(A), val |-> nvals + 1],
             [map |-> "reg", key |-> n, ty |-> TypeName(A), val |-> nvals + 1] >>
    /\ UNCHANGED reservedSet
    /\ UNCHANGED notReg

RegNext ==
    \/ \E k \in RegKeys, T \in ValueTypes : InsertNamed(k, T)
    \/ \E A \in ActorTypes, n \in Names : Reserve(A, n)
    \/ \E A \in ActorTypes, n \in Names : BuilderSpawn(A, n)


\* ==================================================== Part IV: rate limiter
\* The clock runs from 0 to MaxTime ticks.
MaxTime == 1
\* Acquire and Upsert messages handled, in total of each kind.
MaxAcquires == 3
MaxRateUpserts == 2

RateKeys == {"k1", "k2"}
\* Upsert { qps: f64, burst: u32 } and Acquire { cost: u32 } as sent; qps in
\* tokens per tick.
UpsertCfgs == {[qps |-> 2, burst |-> 1], [qps |-> 1, burst |-> 3],
               [qps |-> 0, burst |-> 1]}
CostValues == {1}
\* The requests of one requester on one key: cost 0 as well, and a receiver
\* the requester may have dropped.
MaxSoloAcquires == 2
SoloKey == "k1"
SoloReqs == {[cost |-> 1, rx |-> "open"], [cost |-> 1, rx |-> "closed"],
             [cost |-> 0, rx |-> "open"]}
\* qps is an f64 that upsert stores as sent: a negative one as well.
SoloCfgs == UpsertCfgs \cup {[qps |-> -1, burst |-> 1]}

NoBucket == [qps |-> 0, burst |-> 0, tokens |-> 0, last |-> -1]
\* BucketState::new(cfg): a new bucket starts full. (Faulty variant: it
\* starts empty.)
NewBucketEmpty(q, b, t) == [qps |-> q, burst |-> b, tokens |-> 0, last |-> t]
NewBucket(q, b, t) == [qps |-> q, burst |-> b, tokens |-> b, last |-> t]
\* The bucket made for an unknown key by Acquire: qps 1.0, burst 1.0.
DefaultBucket(t) == NewBucket(1, 1, t)

MinOf(x, y) == IF x <= y THEN x ELSE y

\* RateLimiter::upsert: entry(key).and_modify(|b| b.cfg = cfg)
\*                                 .or_insert_with(|| BucketState::new(cfg))
UpsertBucket(old, q, b, t) ==
    IF old = NoBucket THEN NewBucket(q, b, t)
    ELSE [old EXCEPT !.qps = q, !.burst = b]

\* Duration of deficit / qps seconds, in half ticks; secs.max(0.0) makes a
\* negative quotient 0, and Duration::from_secs_f64 panics on the infinite
\* quotient of qps = 0.
WaitFor(deficit, q) ==
    IF q > 0 THEN [panic |-> FALSE, wait2 |-> (2 * deficit) \div q]
    ELSE IF q = 0 THEN [panic |-> TRUE, wait2 |-> 0]
    ELSE [panic |-> FALSE, wait2 |-> 0]

\* BucketState::needed_wait(need, now): refill, then take the tokens or
\* reserve what is there and compute the wait.
NeededWaitNoRefill(bk, need, t) ==
    LET refilled == MinOf(bk.tokens, bk.burst) IN
      IF refilled >= need
      THEN [b |-> [bk EXCEPT !.last = t, !.tokens = refilled - need],
            panic |-> FALSE, wait2 |-> 0]
      ELSE LET w == WaitFor(need - refilled, bk.qps) IN
           [b |-> [bk EXCEPT !.last = t, !.tokens = 0],
            panic |-> w.panic, wait2 |-> w.wait2]
NeededWait(bk, need, t) ==
    LET refilled == MinOf(bk.tokens + (t - bk.last) * bk.qps, bk.burst) IN
      IF refilled >= need
      THEN [b |-> [bk EXCEPT !.last = t, !.tokens = refilled - need],
            panic |-> FALSE, wait2 |-> 0]
      ELSE LET w == WaitFor(need - refilled, bk.qps) IN
           [b |-> [bk EXCEPT !.last = t, !.tokens = 0],
            panic |-> w.panic, wait2 |-> w.wait2]

RateInit ==
    /\ now = 0
    /\ buckets = [k \in RateKeys |-> NoBucket]
    /\ rlPc = "running"
    /\ waiters = {}
    /\ permits = {}
    /\ nacq = 0
    /\ nups = 0

\* Time passes.
Tick ==
    /\ now < MaxTime
    /\ now' = now + 1
    /\ UNCHANGED << buckets, rlPc, waiters, permits, nacq, nups >>
    /\ UNCHANGED notRate

\* The actor's handle call can start: the task is alive and in its loop.
\* (Faulty variant: the handler sleeps the wait itself before it returns.)
CanHandleAfterSleep == rlPc = "running" /\ waiters = {}
CanHandle == rlPc = "running"

\* RateLimiter::handle(RateMsg::Upsert { key, qps, burst })
RateUpsert(k, q, b) ==
    /\ CanHandle
    /\ nups < MaxRateUpserts
    /\ nups' = nups + 1
    /\ buckets' = [buckets EXCEPT ![k] = UpsertBucket(@, q, b, now)]
    /\ UNCHANGED << now, rlPc, waiters, permits, nacq >>
    /\ UNCHANGED notRate

\* RateLimiter::handle(RateMsg::Acquire { key, cost, reply }): the wait is
\* computed and handed to a detached task; handle returns at once. rx is the
\* state of the receiver of reply, "closed" when the requester has dropped
\* it; handle does not look at it.
RateAcquireRx(k, cost, rx) ==
    /\ CanHandle
    /\ nacq < MaxAcquires
    /\ nacq' = nacq + 1
    /\ LET bk == IF buckets[k] = NoBucket THEN DefaultBucket(now) ELSE buckets[k]
           r == NeededWait(bk, cost, now) IN
         /\ buckets' = [buckets EXCEPT ![k] = r.b]
         /\ IF r.panic
            THEN /\ rlPc' = "panicked"
                 /\ UNCHANGED waiters
            ELSE /\ waiters' = waiters \cup
                        {[id |-> nacq + 1, key |-> k, cost |-> cost, at |-> now,
                          qps |-> bk.qps, burst |-> bk.burst,
                          due2 |-> 2 * now + r.wait2, rx |-> rx]}
                 /\ UNCHANGED rlPc
    /\ UNCHANGED << now, permits, nups >>
    /\ UNCHANGED notRate

\* An Acquire of a requester that is waiting on its receiver.
RateAcquire(k, cost) == RateAcquireRx(k, cost, "open")

\* The detached task: sleep(wait), then `let _ = reply.send(RatePermit)`; the
\* send to a dropped receiver fails and the task ends all the same.
RateWaiterFire(i) ==
    /\ \E w \in waiters :
          /\ w.id = i
          /\ 2 * now >= w.due2
          /\ waiters' = waiters \ {w}
          /\ permits' = permits \cup {w}
    /\ UNCHANGED << now, buckets, rlPc, nacq, nups >>
    /\ UNCHANGED notRate

RateNext ==
    \/ Tick
    \/ \E k \in RateKeys, c \in UpsertCfgs : RateUpsert(k, c.qps, c.burst)
    \/ \E k \in RateKeys, c \in CostValues : RateAcquire(k, c)
    \/ \E i \in 1 .. MaxAcquires : RateWaiterFire(i)

\* The limiter serving the requests of one key, with every kind of request
\* and of configuration.
SoloRateNext ==
    \/ Tick
    \/ \E c \in SoloCfgs : RateUpsert(SoloKey, c.qps, c.burst)
    \/ \E k \in RateKeys \ {SoloKey} : RateUpsert(k, 1, 3)
    \/ \E r \in SoloReqs :
          nacq < MaxSoloAcquires /\ RateAcquireRx(SoloKey, r.cost, r.rx)
    \/ \E i \in 1 .. MaxAcquires : RateWaiterFire(i)

\* ================================================ Part V: persistence actor
\* Mailbox capacity of the store actor in the model.
StoreCap == 1
\* Write and watch messages sent by clients, in total.
MaxSends == 3

Claims == {"c1", "c2"}
WatcherIds == 1 .. MaxSends
TaskIds == 1 .. MaxSends
ReadOps == {"GetArtifact", "SearchArtifacts", "ListEntitiesByName"}
\* The writes clients send: InsertClaim(c) and UpsertArtifact(n) with
\* n.claim_id and n.claim_relevance.
InsertInputs == {[claim |-> "c1", rel |-> FALSE]}
UpsertInputs == {[claim |-> "c1", rel |-> TRUE], [claim |-> "c1", rel |-> FALSE],
                 [claim |-> "c2", rel |-> TRUE]}

StoreMsg(op, c, rel, id) == [op |-> op, claim |-> c, rel |-> rel, id |-> id]
\* A task slot not in use: not spawned yet, or ended.
NoTask == [pc |-> "idle", kind |-> "none", claim |-> "none", rel |-> FALSE,
           ok |-> FALSE]
NoWatcher == [claim |-> "none", rx |-> "none", since |-> FALSE]
NoRead == [st |-> "none", held |-> FALSE]

SeqRange(q) == {q[i] : i \in 1 .. Len(q)}

StoreInit ==
    /\ stPc = "running"
    /\ stMailbox = << >>
    /\ stWatchers = [c \in Claims |-> << >>]
    /\ stW = [w \in WatcherIds |-> NoWatcher]
    /\ stOwed = {}
    /\ stTasks = [t \in TaskIds |-> NoTask]
    /\ stPermit = 0
    /\ stRead = NoRead
    /\ stSent = 0
    /\ stLastFire = << >>
    /\ stLogged = FALSE

\* Addr::send on the store's address completes: the actor is alive and the
\* mailbox has room.
StoreCanSend == stPc = "running" /\ Len(stMailbox) < StoreCap

\* A client sends InsertClaim or UpsertArtifact.
SendWrite(op, c, rel) ==
    /\ StoreCanSend
    /\ stSent < MaxSends
    /\ stSent' = stSent + 1
    /\ stMailbox' = Append(stMailbox, StoreMsg(op, c, rel, 0))
    /\ UNCHANGED << stPc, stWatchers, stW, stOwed, stTasks, stPermit, stRead,
                    stLastFire >>
    /\ UNCHANGED stLogged
    /\ UNCHANGED notStore

\* A client sends a query with its reply channel (one query at a time in the
\* model).
SendRead(op) ==
    /\ StoreCanSend
    /\ stRead.st \in {"none", "replied", "dropped"}
    /\ stRead' = [st |-> "queued", held |-> FALSE]
    /\ stMailbox' = Append(stMailbox, StoreMsg(op, "none", FALSE, 0))
    /\ UNCHANGED << stPc, stWatchers, stW, stOwed, stTasks, stPermit, stSent,
                    stLastFire >>
    /\ UNCHANGED stLogged
    /\ UNCHANGED notStore

\* subscribe_artifact_updates: a oneshot channel is made and its sender sent
\* in WatchArtifacts.
SendWatch(c) ==
    /\ StoreCanSend
    /\ stSent < MaxSends
    /\ stSent' = stSent + 1
    /\ \E w \in WatcherIds :
          /\ stW[w].rx = "none"
          /\ \A v \in WatcherIds : v < w => stW[v].rx # "none"
          /\ stW' = [stW EXCEPT ![w] = [claim |-> c, rx |-> "open", since |-> FALSE]]
          /\ stMailbox' = Append(stMailbox, StoreMsg("WatchArtifacts", c, FALSE, w))
    /\ UNCHANGED << stPc, stWatchers, stOwed, stTasks, stPermit, stRead,
                    stLastFire >>
    /\ UNCHANGED stLogged
    /\ UNCHANGED notStore

\* cancel_artifact_watch aborts the waiting task: the receiver is dropped.
CloseWatcher(w) ==
    /\ stW[w].rx = "open"
    /\ stW' = [stW EXCEPT ![w].rx = "closed", ![w].since = FALSE]
    /\ stOwed' = stOwed \ {w}
    /\ UNCHANGED << stPc, stMailbox, stWatchers, stTasks, stPermit,
                    stRead, stSent, stLastFire >>
    /\ UNCHANGED stLogged
    /\ UNCHANGED notStore

\* The task loop hands the head of the mailbox to handle.
StoreCanHandle(ops) ==
    /\ stPc = "running"
    /\ stMailbox # << >>
    /\ Head(stMailbox).op \in ops

\* The slot of the next spawned task: above every task still alive, so that
\* among live tasks a lower slot was spawned earlier.
FreeTask == CHOOSE t \in TaskIds :
                /\ \A u \in TaskIds : u >= t => stTasks[u].pc = "idle"
                /\ \A u \in TaskIds : u < t =>
                       \E v \in TaskIds : v >= u /\ stTasks[v].pc # "idle"

\* handle(InsertClaim) and handle(UpsertArtifact): spawn the write task.
SpawnWrite(kind) ==
    LET m == Head(stMailbox) IN
      /\ stTasks' = [stTasks EXCEPT ![FreeTask] =
                        [pc |-> "acquire", kind |-> kind, claim |-> m.claim,
                         rel |-> m.rel, ok |-> FALSE]]
      /\ stMailbox' = Tail(stMailbox)
      /\ stLastFire' = << >>
      /\ UNCHANGED << stPc, stWatchers, stW, stOwed, stPermit, stRead, stSent >>
      /\ UNCHANGED stLogged
      /\ UNCHANGED notStore

HandleInsertClaim ==
    /\ StoreCanHandle({"InsertClaim"})
    /\ SpawnWrite("insert")

HandleUpsertArtifact ==
    /\ StoreCanHandle({"UpsertArtifact"})
    /\ SpawnWrite("upsert")

\* handle(GetArtifact | SearchArtifacts | ListEntitiesByName): spawn the query.
HandleRead ==
    /\ StoreCanHandle(ReadOps)
    /\ stRead' = [stRead EXCEPT !.st = "running"]
    /\ stMailbox' = Tail(stMailbox)
    /\ stLastFire' = << >>
    /\ UNCHANGED << stPc, stWatchers, stW, stOwed, stTasks, stPermit, stSent >>
    /\ UNCHANGED stLogged
    /\ UNCHANGED notStore

\* entry.retain(|tx| !tx.is_closed())
RetainAll(list) == list
Retain(list) == SelectSeq(list, LAMBDA w : stW[w].rx # "closed")

\* handle(WatchArtifacts { claim, reply })
HandleWatch ==
    /\ StoreCanHandle({"WatchArtifacts"})
    /\ LET m == Head(stMailbox) IN
         stWatchers' = [stWatchers EXCEPT ![m.claim] = Append(Retain(@), m.id)]
    /\ stMailbox' = Tail(stMailbox)
    /\ stLastFire' = << >>
    /\ UNCHANGED << stPc, stW, stOwed, stTasks, stPermit, stRead, stSent >>
    /\ UNCHANGED stLogged
    /\ UNCHANGED notStore

\* self.watchers.remove(&claim): what is left stored for the claim.
EntryKept(list) == list
EntryAfterRemove(list) == << >>

\* handle(ArtifactUpserted { claim }): tx.send(()) to every listener; a send
\* to a dropped receiver fails and is ignored.
HandleArtifactUpserted ==
    /\ StoreCanHandle({"ArtifactUpserted"})
    /\ LET c == Head(stMailbox).claim
           listeners == stWatchers[c] IN
         /\ stWatchers' = [stWatchers EXCEPT ![c] = EntryAfterRemove(@)]
         /\ stLastFire' = listeners
         /\ stW' = [w \in WatcherIds |->
                       IF w \in SeqRange(listeners) /\ stW[w].rx = "open"
                       THEN [claim |-> "none", rx |-> "fired", since |-> FALSE]
                       ELSE stW[w]]
         /\ stOwed' = stOwed \ SeqRange(listeners)
    /\ stMailbox' = Tail(stMailbox)
    /\ UNCHANGED << stPc, stTasks, stPermit, stRead, stSent >>
    /\ UNCHANGED stLogged
    /\ UNCHANGED notStore

\* Semaphore::new(1): acquire_owned completes when the permit is free.
SemAvailableAlways == TRUE
SemAvailable == stPermit = 0

\* permit_src.acquire_owned().await
AcquirePermit(t) ==
    /\ stTasks[t].pc = "acquire"
    /\ SemAvailable
    /\ stPermit' = t
    /\ stTasks' = [stTasks EXCEPT ![t].pc = "writing"]
    /\ UNCHANGED << stPc, stMailbox, stWatchers, stW, stOwed, stRead, stSent,
                    stLastFire >>
    /\ UNCHANGED stLogged
    /\ UNCHANGED notStore

\* drop(permit): the owned permit goes back to the semaphore. Without the
\* drop (ForgetPermit) the semaphore would keep it counted as taken.
ForgetPermit(t) == stPermit
DropPermit(t) == IF stPermit = t THEN 0 ELSE stPermit

\* `if let Err(..) = upsert_normalized(..) {..} else if relevant { me.send }`
NotifyAlsoOnFailure(kind, ok, rel) == kind = "upsert" /\ rel
NotifyAfter(kind, ok, rel) == kind = "upsert" /\ ok /\ rel

\* insert_claim / upsert_normalized returns; an Err is logged with error!.
\* Unless a notification follows, the permit is dropped and the task ends. A
\* relevant upsert that succeeded is noted on the open watchers listed for its
\* claim.
WriteFinish(t, ok) ==
    /\ stTasks[t].pc = "writing"
    /\ IF NotifyAfter(stTasks[t].kind, ok, stTasks[t].rel)
       THEN /\ stTasks' = [stTasks EXCEPT ![t].pc = "notify", ![t].ok = ok]
            /\ UNCHANGED stPermit
       ELSE /\ stTasks' = [stTasks EXCEPT ![t] = NoTask]
            /\ stPermit' = DropPermit(t)
    /\ stLogged' = (stLogged \/ ~ok)
    /\ stW' = [w \in WatcherIds |->
                  IF /\ stTasks[t].kind = "upsert" /\ ok /\ stTasks[t].rel
                     /\ w \in SeqRange(stWatchers[stTasks[t].claim])
                     /\ stW[w].rx = "open"
                  THEN [stW[w] EXCEPT !.since = TRUE]
                  ELSE stW[w]]
    /\ UNCHANGED << stPc, stMailbox, stWatchers, stOwed, stRead, stSent,
                    stLastFire >>
    /\ UNCHANGED notStore

\* me.send(ArtifactUpserted { claim }).await, then drop(permit): the send
\* waits for room in the mailbox, and fails (ignored) once the actor is gone.
Notify(t) ==
    /\ stTasks[t].pc = "notify"
    /\ IF stPc = "running"
       THEN /\ Len(stMailbox) < StoreCap
            /\ stMailbox' = Append(stMailbox,
                   StoreMsg("ArtifactUpserted", stTasks[t].claim, FALSE, 0))
            /\ stOwed' = stOwed \cup
                   {w \in SeqRange(stWatchers[stTasks[t].claim]) : stW[w].rx = "open"}
       ELSE UNCHANGED << stMailbox, stOwed >>
    /\ stTasks' = [stTasks EXCEPT ![t] = NoTask]
    /\ stPermit' = DropPermit(t)
    /\ UNCHANGED << stPc, stWatchers, stW, stRead, stSent, stLastFire >>
    /\ UNCHANGED stLogged
    /\ UNCHANGED notStore

\* The query returns and reply.send(res) is done; no permit is involved. With
\* the receiver gone the send is Err, which is logged at debug level.
ReadFinishRx(alive) ==
    /\ stRead.st = "running"
    /\ stRead' = [st |-> IF alive THEN "replied" ELSE "dropped",
                  held |-> stPermit # 0]
    /\ UNCHANGED << stPc, stMailbox, stWatchers, stW, stOwed, stTasks,
                    stPermit, stSent, stLastFire >>
    /\ UNCHANGED stLogged
    /\ UNCHANGED notStore

ReadFinish == ReadFinishRx(TRUE)
\* The requester dropped its receiver before the query returned.
ReadReplyDropped == ReadFinishRx(FALSE)

\* The shutdown arm of the task loop: the task returns, the actor and its
\* receiver are dropped, and with them every stored or queued reply sender.
StoreStop ==
    /\ stPc = "running"
    /\ stPc' = "stopped"
    /\ stMailbox' = << >>
    /\ stWatchers' = [c \in Claims |-> << >>]
    /\ stW' = [w \in WatcherIds |->
                  IF stW[w].rx = "open"
                  THEN [claim |-> "none", rx |-> "lost", since |-> FALSE]
                  ELSE stW[w]]
    /\ stRead' = IF stRead.st = "queued" THEN NoRead ELSE stRead
    /\ stLastFire' = << >>
    /\ UNCHANGED << stOwed, stTasks, stPermit, stSent >>
    /\ UNCHANGED stLogged
    /\ UNCHANGED notStore

StoreNext ==
    \/ \E m \in InsertInputs : SendWrite("InsertClaim", m.claim, m.rel)
    \/ \E m \in UpsertInputs : SendWrite("UpsertArtifact", m.claim, m.rel)
    \/ \E op \in ReadOps : SendRead(op)
    \/ \E c \in Claims : SendWatch(c)
    \/ \E w \in WatcherIds : CloseWatcher(w)
    \/ HandleInsertClaim
    \/ HandleUpsertArtifact
    \/ HandleRead
    \/ HandleWatch
    \/ HandleArtifactUpserted
    \/ \E t \in TaskIds : AcquirePermit(t)
    \/ \E t \in TaskIds, ok \in BOOLEAN : WriteFinish(t, ok)
    \/ \E t \in TaskIds : Notify(t)
    \/ ReadFinish
    \/ ReadReplyDropped
    \/ StoreStop

\* ======================================================= Part VI: supervise
\* Failures counted exactly up to this number; the backoff has reached its
\* ceiling well before.
MaxRestarts == 12
BackoffStartMs == 100
BackoffCapMs == 30000

SupInit ==
    /\ supPc = "loop"
    /\ supFut = "none"
    /\ supBackoff = BackoffStartMs
    /\ supSleep = 0
    /\ supSig = FALSE
    /\ supSigAt = "none"
    /\ supCalls = 0
    /\ supRestarts = 0
    /\ supResult = "none"

\* Counting up to a ceiling.
CountUp(n, max) == IF n < max THEN n + 1 ELSE max

\* `loop { tokio::select! { .. res = run_once() => .. } }`: entering select!
\* evaluates run_once(), which makes the future of this attempt; f is what
\* its first poll finds: still pending, or ended at once.
SupSelect(f) ==
    /\ supPc = "loop"
    /\ supPc' = "select"
    /\ supFut' = f
    /\ supCalls' = CountUp(supCalls, MaxRestarts + 1)
    /\ UNCHANGED << supBackoff, supSleep, supSig, supSigAt, supRestarts, supResult >>
    /\ UNCHANGED notSup

\* The unit of work comes to its end (at once, or after a while).
UnitFinish(r) ==
    /\ supPc = "select"
    /\ supFut = "pending"
    /\ supFut' = r
    /\ UNCHANGED << supPc, supBackoff, supSleep, supSig, supSigAt, supCalls,
                    supRestarts, supResult >>
    /\ UNCHANGED notSup

\* The shutdown branch can be taken. (Faulty variant: the run-once branch is
\* always polled first.)
ShutdownReadyBiased == supPc = "select" /\ supSig /\ supFut = "pending"
ShutdownReady == supPc = "select" /\ supSig

\* `_ = shutdown.recv() => return Ok(())`
SupShutdownArm ==
    /\ ShutdownReady
    /\ supPc' = "returned"
    /\ supResult' = "ok"
    /\ supFut' = "dropped"
    /\ UNCHANGED << supBackoff, supSleep, supSig, supSigAt, supCalls, supRestarts >>
    /\ UNCHANGED notSup

\* `res = run_once() => match res { Ok(()) => return Ok(()), Err(e) => {
\* warn!; sleep(backoff).await; .. } }`
SupRunOnceArm ==
    /\ supPc = "select"
    /\ supFut \in {"ok", "err"}
    /\ IF supFut = "ok"
       THEN /\ supPc' = "returned"
            /\ supResult' = "ok"
            /\ UNCHANGED << supSleep, supRestarts >>
       ELSE /\ supPc' = "sleeping"
            /\ supSleep' = supBackoff
            /\ supRestarts' = CountUp(supRestarts, MaxRestarts)
            /\ UNCHANGED supResult
    /\ supFut' = "none"
    /\ UNCHANGED << supBackoff, supSig, supSigAt, supCalls >>
    /\ UNCHANGED notSup

\* backoff = (backoff * 2).min(Duration::from_secs(30))
NextBackoffNoCeiling(b) == 2 * b
NextBackoff(b) == IF 2 * b < BackoffCapMs THEN 2 * b ELSE BackoffCapMs

\* The sleep is over: the backoff is doubled and the loop goes round.
SupWake ==
    /\ supPc = "sleeping"
    /\ supBackoff' = NextBackoff(supBackoff)
    /\ supPc' = "loop"
    /\ UNCHANGED << supFut, supSleep, supSig, supSigAt, supCalls, supRestarts,
                    supResult >>
    /\ UNCHANGED notSup

\* A shutdown signal is broadcast to the receiver supervise holds.
SupSignal ==
    /\ ~supSig
    /\ supSig' = TRUE
    /\ supSigAt' = IF supPc = "select" /\ supFut # "pending" THEN "ready" ELSE supPc
    /\ UNCHANGED << supPc, supFut, supBackoff, supSleep, supCalls, supRestarts,
                    supResult >>
    /\ UNCHANGED notSup

SupNext ==
    \/ \E f \in {"pending", "ok", "err"} : SupSelect(f)
    \/ \E r \in {"ok", "err"} : UnitFinish(r)
    \/ SupShutdownArm
    \/ SupRunOnceArm
    \/ SupWake
    \/ SupSignal

\* ===================================== Part VII: configuration expansion
MAXIMUM_ENV_EXPANSION_DEPTH == 8
\* Longest array of leaves given as the value.
MaxLeaves == 2

\* A string is a sequence of tokens: a one-letter literal, or a reference
\* "$A" standing for ${A}.
EnvVars == {"A", "B"}
RefVar == [r \in {"$A", "$B", "$U"} |->
              IF r = "$A" THEN "A" ELSE IF r = "$B" THEN "B" ELSE "U"]
IsRef(t) == t \in DOMAIN RefVar
ContainsDollar(str) == \E i \in 1 .. Len(str) : IsRef(str[i])

Unset == [set |-> FALSE, val |-> << >>]
SetTo(str) == [set |-> TRUE, val |-> str]
\* The values tried for each variable; U is never set.
EnvChoices ==
    [A : {Unset, SetTo(<< "q" >>), SetTo(<< "m", "$B" >>), SetTo(<< "$B" >>),
          SetTo(<< "a", "$A" >>)},
     B : {Unset, SetTo(<< "q" >>), SetTo(<< "$A" >>), SetTo(<< "n", "$A" >>)},
     U : {Unset}]

StrLeaf(str) == [tag |-> "string", str |-> str]
Scalar(tag) == [tag |-> tag, str |-> << >>]
LeafChoices ==
    {StrLeaf(<< "x", "$A", "y" >>), StrLeaf(<< "h", "$U" >>),
     StrLeaf(<< "$B", "$U" >>), StrLeaf(<< "p" >>),
     Scalar("number"), Scalar("bool"), Scalar("null")}
\* A lone leaf, or an array (or object) of leaves.
ValueChoices == UNION {[1 .. n -> LeafChoices] : n \in 1 .. MaxLeaves}

RECURSIVE Substitute(_, _)
\* Every reference replaced by the value of its variable.
Substitute(str, env) ==
    IF str = << >> THEN << >>
    ELSE (IF IsRef(Head(str)) THEN env[RefVar[Head(str)]].val ELSE << Head(str) >>)
         \o Substitute(Tail(str), env)

\* shellexpand::env(&cur): an unset variable makes the whole call fail.
ShellExpandEnv(str, env) ==
    IF \E i \in 1 .. Len(str) : IsRef(str[i]) /\ ~env[RefVar[str[i]]].set
    THEN [ok |-> FALSE, str |-> << >>]
    ELSE [ok |-> TRUE, str |-> Substitute(str, env)]

\* `match shellexpand::env(&cur) { Ok(cow) => cow.into_owned(),
\*                                 Err(_) => cur.clone() }`
ExpandedOrEmpty(str, env) == ShellExpandEnv(str, env).str
Expanded(str, env) ==
    LET r == ShellExpandEnv(str, env) IN IF r.ok THEN r.str ELSE str

\* `for _ in 0..MAXIMUM_ENV_EXPANSION_DEPTH`
DepthLeftOneMore(p) == p < MAXIMUM_ENV_EXPANSION_DEPTH + 1
DepthLeft(p) == p < MAXIMUM_ENV_EXPANSION_DEPTH

CfgInit ==
    /\ cfgEnv \in EnvChoices
    /\ cfgIn \in ValueChoices
    /\ cfgVal = cfgIn
    /\ cfgIdx = 1
    /\ cfgCur = << >>
    /\ cfgPass = 0
    /\ cfgPc = "visit"

\* The one call the other parts start beside.
CfgInitOne ==
    /\ cfgEnv = [A |-> Unset, B |-> Unset, U |-> Unset]
    /\ cfgIn = << Scalar("null") >>
    /\ cfgVal = cfgIn
    /\ cfgIdx = 1
    /\ cfgCur = << >>
    /\ cfgPass = 0
    /\ cfgPc = "visit"

\* The traversal moves to the next leaf, or ends.
NextLeaf ==
    /\ cfgIdx' = cfgIdx + 1
    /\ cfgPc' = IF cfgIdx + 1 > Len(cfgVal) THEN "done" ELSE "visit"

\* `Value::String(s) => if s.contains('$') { let mut cur = take(s); ..`
CfgVisitString ==
    /\ cfgPc = "visit"
    /\ cfgVal[cfgIdx].tag = "string"
    /\ IF ContainsDollar(cfgVal[cfgIdx].str)
       THEN /\ cfgCur' = cfgVal[cfgIdx].str
            /\ cfgPass' = 0
            /\ cfgPc' = "loop"
            /\ UNCHANGED cfgIdx
       ELSE /\ NextLeaf
            /\ UNCHANGED << cfgCur, cfgPass >>
    /\ UNCHANGED << cfgEnv, cfgIn, cfgVal >>
    /\ UNCHANGED notCfg

\* `_ => {}`: numbers, booleans and null.
CfgVisitOther ==
    /\ cfgPc = "visit"
    /\ cfgVal[cfgIdx].tag # "string"
    /\ NextLeaf
    /\ UNCHANGED << cfgEnv, cfgIn, cfgVal, cfgCur, cfgPass >>
    /\ UNCHANGED notCfg

\* One pass of the loop that changes the string: `cur = expanded`.
CfgPassChanged ==
    /\ cfgPc = "loop"
    /\ DepthLeft(cfgPass)
    /\ Expanded(cfgCur, cfgEnv) # cfgCur
    /\ cfgCur' = Expanded(cfgCur, cfgEnv)
    /\ cfgPass' = cfgPass + 1
    /\ UNCHANGED << cfgEnv, cfgIn, cfgVal, cfgIdx, cfgPc >>
    /\ UNCHANGED notCfg

\* `*s = cur`
StoreCur ==
    /\ cfgVal' = [cfgVal EXCEPT ![cfgIdx].str = cfgCur]
    /\ cfgCur' = << >>
    /\ NextLeaf

\* One pass that changes nothing: `if expanded == cur { break; }`.
CfgPassUnchanged ==
    /\ cfgPc = "loop"
    /\ DepthLeft(cfgPass)
    /\ Expanded(cfgCur, cfgEnv) = cfgCur
    /\ cfgPass' = cfgPass + 1
    /\ StoreCur
    /\ UNCHANGED << cfgEnv, cfgIn >>
    /\ UNCHANGED notCfg

\* The loop has run MAXIMUM_ENV_EXPANSION_DEPTH times.
CfgLoopEnd ==
    /\ cfgPc = "loop"
    /\ ~DepthLeft(cfgPass)
    /\ StoreCur
    /\ UNCHANGED << cfgEnv, cfgIn, cfgPass >>
    /\ UNCHANGED notCfg

CfgNext ==
    \/ CfgVisitString
    \/ CfgVisitOther
    \/ CfgPassChanged
    \/ CfgPassUnchanged
    \/ CfgLoopEnd

\* ======================================= Part VIII: the wired actor graph
\* The actors tether.rs reserves, starts and wires, each with a bounded
\* mailbox: what their handlers send and await, and the tasks that answer
\* them. Messages that make the TUI's handler send nothing (ChatDone,
\* OpError, the artifact check and watch of Part V) and the detached tasks
\* that bring them are left out.
GActors == {"tui", "twitter", "llm", "chat", "store", "rate"}
\* Capacity of every mailbox.
GCap == 1
\* Commands the user enters.
MaxInputs == 2
\* Artifacts in a search response.
MaxArtifacts == 1
\* Hits of the chat actor's retrieval that are fetched one by one.
MaxHits == 1

GMsg(k, f) == [kind |-> k, from |-> f]

\* What a handler does, one step after the other.
\* `addr.send(msg).await`: waits while the mailbox is full.
GSend(to, k) == [op |-> "send", to |-> to, kind |-> k]
\* `let _ = addr.try_send(msg)`: never waits.
GTry(to, k) == [op |-> "try", to |-> to, kind |-> k]
\* `rx.await` on the oneshot receiver of the request sent to `of`: waits
\* until the sender has sent.
GAwait(of) == [op |-> "await", to |-> of, kind |-> "reply"]
\* `let _ = reply.send(..)`: never waits; wakes the detached task of the TUI
\* that holds the receiver and will send k to the TUI.
GTask(to, k) == [op |-> "task", to |-> to, kind |-> k]
\* What the store and the limiter do in a handler: spawn a task, or fire
\* the watchers.
GLocal(op, k, f) == [op |-> op, to |-> f, kind |-> k]

RECURSIVE Times(_, _)
Times(s, n) == IF n = 0 THEN << >> ELSE s \o Times(s, n - 1)

acquire_rate_permit == << GSend("rate", "Acquire"), GAwait("rate") >>
store_search_artifacts == << GSend("store", "SearchArtifacts"), GAwait("store") >>
store_get_artifact == << GSend("store", "GetArtifact"), GAwait("store") >>

\* TuiActor::handle: the ways it can go for the message.
TuiHandle(m) ==
    CASE m.kind = "Claim" ->
           {<< GTry("store", "InsertClaim"), GTry("llm", "BuildSearchQuery") >>}
      [] m.kind = "Chat" -> {<< GTry("chat", "ChatCmd") >>}
      [] m.kind = "SearchQueryBuilt" -> {<< GSend("twitter", "SearchCmd") >>}
      [] OTHER -> {<< >>}

\* TwitterSearchActor::handle
TwitterHandle(m) ==
    {acquire_rate_permit \o Times(<< GSend("llm", "NormalizeArtifact") >>, n) :
        n \in 0 .. MaxArtifacts}

\* LlmActor::handle
LlmHandle(m) ==
    IF m.kind = "NormalizeArtifact"
    THEN {acquire_rate_permit \o << GSend("store", "UpsertArtifact") >>}
    ELSE {acquire_rate_permit \o << GTask("tui", "SearchQueryBuilt") >>}

\* ChatLlmActor::handle
ChatHandle(m) ==
    {store_search_artifacts \o Times(store_get_artifact, n)
        \o acquire_rate_permit : n \in 0 .. MaxHits}

\* StoreActor::handle, UpsertArtifact: the write and the notification are left
\* to a spawned task. (Faulty variant: the handler itself sends the
\* notification to its own mailbox.)
StoreUpsertInline(m) == << GSend("store", "ArtifactUpserted") >>
StoreUpsert(m) == << GLocal("write", "upsert", m.from) >>

\* StoreActor::handle
StoreHandle(m) ==
    CASE m.kind = "InsertClaim" -> {<< GLocal("write", "insert", m.from) >>}
      [] m.kind = "UpsertArtifact" -> {StoreUpsert(m)}
      [] m.kind \in {"SearchArtifacts", "GetArtifact"} ->
           {<< GLocal("read", m.kind, m.from) >>}
      [] OTHER -> {<< GLocal("fire", m.kind, m.from) >>}

\* RateLimiter::handle, Acquire: the reply is left to a spawned waiter.
GRateHandle(m) == {<< GLocal("waiter", m.kind, m.from) >>}

Handler(a, m) ==
    CASE a = "tui" -> TuiHandle(m)
      [] a = "twitter" -> TwitterHandle(m)
      [] a = "llm" -> LlmHandle(m)
      [] a = "chat" -> ChatHandle(m)
      [] a = "store" -> StoreHandle(m)
      [] OTHER -> GRateHandle(m)


GraphInit ==
    /\ gBox = [a \in GActors |-> << >>]
    /\ gRun = [a \in GActors |-> << >>]
    /\ gWaiters = {}
    /\ gReads = {}
    /\ gAcq = [k \in {"insert", "upsert"} |-> 0]
    /\ gHold = "free"
    /\ gPend = 0
    /\ gIn = 0

GRoom(to) == Len(gBox[to]) < GCap
GPut(to, m) == [gBox EXCEPT ![to] = Append(@, m)]

\* The terminal feeds a command to the TUI's mailbox: a claim first, then
\* claims or chat lines.
GFeed(k) ==
    /\ gIn < MaxInputs
    /\ k = "Chat" => gIn > 0
    /\ GRoom("tui")
    /\ gBox' = GPut("tui", GMsg(k, "user"))
    /\ gIn' = gIn + 1
    /\ UNCHANGED << gRun, gWaiters, gReads, gAcq, gHold, gPend >>
    /\ UNCHANGED notGraph

\* Steps that wait for nothing and touch no mailbox: the handlers of the
\* store and of the limiter are made of these alone.
LocalOps == {"write", "read", "fire", "waiter"}
GLocalStep(s) ==
    CASE s.op = "write" ->
           /\ gAcq' = [gAcq EXCEPT ![s.kind] = @ + 1]
           /\ UNCHANGED << gWaiters, gReads >>
      [] s.op = "read" ->
           /\ gReads' = gReads \cup {s.to}
           /\ UNCHANGED << gWaiters, gAcq >>
      [] s.op = "waiter" ->
           /\ gWaiters' = gWaiters \cup {s.to}
           /\ UNCHANGED << gReads, gAcq >>
      [] OTHER -> UNCHANGED << gWaiters, gReads, gAcq >>

\* The actor loop receives the head of the mailbox and calls handle, which
\* runs to its first await or try_send (or to its end).
GHandle(a) ==
    /\ gRun[a] = << >>
    /\ gBox[a] # << >>
    /\ gBox' = [gBox EXCEPT ![a] = Tail(@)]
    /\ \E s \in Handler(a, Head(gBox[a])) :
          IF s # << >> /\ Head(s).op \in LocalOps
          THEN /\ GLocalStep(Head(s))
               /\ gRun' = [gRun EXCEPT ![a] = Tail(s)]
          ELSE /\ gRun' = [gRun EXCEPT ![a] = s]
               /\ UNCHANGED << gWaiters, gReads, gAcq >>
    /\ UNCHANGED << gHold, gPend, gIn >>
    /\ UNCHANGED notGraph

\* The next step of the handle call of an actor; with the last one handle
\* returns and the loop is back in recv.
GStep(a) ==
    /\ gRun[a] # << >>
    /\ Head(gRun[a]).op # "await"
    /\ gRun' = [gRun EXCEPT ![a] = Tail(@)]
    /\ LET s == Head(gRun[a]) IN
       CASE s.op = "send" ->
              /\ GRoom(s.to)
              /\ gBox' = GPut(s.to, GMsg(s.kind, a))
              /\ UNCHANGED << gWaiters, gReads, gAcq, gPend >>
         [] s.op = "try" ->
              /\ gBox' = IF GRoom(s.to) THEN GPut(s.to, GMsg(s.kind, a)) ELSE gBox
              /\ UNCHANGED << gWaiters, gReads, gAcq, gPend >>
         [] s.op = "task" ->
              /\ gPend' = gPend + 1
              /\ UNCHANGED << gBox, gWaiters, gReads, gAcq >>
         [] OTHER ->
              /\ GLocalStep(s)
              /\ UNCHANGED << gBox, gPend >>
    /\ UNCHANGED << gHold, gIn >>
    /\ UNCHANGED notGraph

\* `rx.await` of the handler returns: the oneshot sender has sent.
GResume(a) == [gRun EXCEPT ![a] = Tail(@)]

\* The waiter task of the limiter sends the permit, and the handler that
\* awaits it goes on.
GWaiterFire(a) ==
    /\ a \in gWaiters
    /\ gWaiters' = gWaiters \ {a}
    /\ gRun' = GResume(a)
    /\ UNCHANGED << gBox, gReads, gAcq, gHold, gPend, gIn >>
    /\ UNCHANGED notGraph

\* A read task of the store sends its result, and the handler that awaits
\* it goes on.
GReadFinish(a) ==
    /\ a \in gReads
    /\ gReads' = gReads \ {a}
    /\ gRun' = GResume(a)
    /\ UNCHANGED << gBox, gWaiters, gAcq, gHold, gPend, gIn >>
    /\ UNCHANGED notGraph

\* A write task of the store gets the write permit.
GAcquirePermit(k) ==
    /\ gHold = "free"
    /\ gAcq[k] > 0
    /\ gAcq' = [gAcq EXCEPT ![k] = @ - 1]
    /\ gHold' = k
    /\ UNCHANGED << gBox, gRun, gWaiters, gReads, gPend, gIn >>
    /\ UNCHANGED notGraph

\* The write is over: a relevant upsert that succeeded goes on to send the
\* notification, still under the permit; every other task ends.
GWriteFinish(notify) ==
    /\ gHold \in {"insert", "upsert"}
    /\ gHold' = IF gHold = "upsert" /\ notify THEN "notify" ELSE "free"
    /\ UNCHANGED << gBox, gRun, gWaiters, gReads, gAcq, gPend, gIn >>
    /\ UNCHANGED notGraph

\* `me.send(StoreMsg::ArtifactUpserted { .. }).await` of the write task, into
\* the store's own mailbox; then the permit is dropped.
GNotify ==
    /\ gHold = "notify"
    /\ GRoom("store")
    /\ gBox' = GPut("store", GMsg("ArtifactUpserted", "store"))
    /\ gHold' = "free"
    /\ UNCHANGED << gRun, gWaiters, gReads, gAcq, gPend, gIn >>
    /\ UNCHANGED notGraph

\* A detached task of the TUI passes the built search query on:
\* `me2.send(TuiMsg::SearchQueryBuilt(response)).await`.
GTaskSend ==
    /\ gPend > 0
    /\ GRoom("tui")
    /\ gBox' = GPut("tui", GMsg("SearchQueryBuilt", "task"))
    /\ gPend' = gPend - 1
    /\ UNCHANGED << gRun, gWaiters, gReads, gAcq, gHold, gIn >>
    /\ UNCHANGED notGraph

GraphNext ==
    \/ \E k \in {"Claim", "Chat"} : GFeed(k)
    \/ \E a \in GActors : GHandle(a)
    \/ \E a \in GActors : GStep(a)
    \/ \E a \in GActors : GWaiterFire(a)
    \/ \E a \in GActors : GReadFinish(a)
    \/ \E k \in {"insert", "upsert"} : GAcquirePermit(k)
    \/ \E n \in BOOLEAN : GWriteFinish(n)
    \/ GNotify
    \/ GTaskSend

\* ------------------------------------------------------------ specifications
\* Every part but the configuration expansion, which starts from each input.
BaseInit ==
    /\ CoreInit /\ SysInit /\ RegInit /\ RateInit /\ StoreInit /\ SupInit
    /\ GraphInit
Init == BaseInit /\ CfgInitOne
Next == CoreNext
Spec == Init /\ [][Next]_vars

SysSpec == Init /\ [][SysNext]_vars
RegSpec == Init /\ [][RegNext]_vars
RateSpec == Init /\ [][RateNext]_vars
SoloRateSpec == Init /\ [][SoloRateNext]_vars

\* The limiter and the persistence actor answering requesters that may have
\* dropped their receivers. The two actors share no state, so a behaviour
\* runs one of them while the other stays as constructed.
RateQuiet == now = 0 /\ nacq = 0 /\ nups = 0
StoreQuiet ==
    /\ stPc = "running" /\ stSent = 0 /\ stRead = NoRead /\ stMailbox = << >>
ReplyNext ==
    \/ StoreQuiet /\ SoloRateNext
    \/ RateQuiet /\ StoreNext
ReplySpec == Init /\ [][ReplyNext]_vars
StoreSpec == Init /\ [][StoreNext]_vars
SupSpec == Init /\ [][SupNext]_vars
\* The backoff timer fires, the loop goes on, and tokio::select! polls its
\* ready branches in random order, so that a ready shutdown branch is not
\* passed over forever.
SupFairness ==
    /\ WF_vars(\E f \in {"pending", "ok", "err"} : SupSelect(f))
    /\ WF_vars(SupWake)
    /\ WF_vars(SupRunOnceArm)
    /\ SF_vars(SupShutdownArm)
FairSupSpec == SupSpec /\ SupFairness
\* A call of expand_env_in_value on each input, beside the other parts at rest.
CfgStart == BaseInit /\ CfgInit
CfgSpec == CfgStart /\ [][CfgNext]_vars
\* expand_env_in_value runs to its end once called.
FairCfgSpec == CfgSpec /\ WF_vars(CfgNext)

GraphSpec == Init /\ [][GraphNext]_vars
\* The store's loop runs when it can, and a send waiting for room in its
\* mailbox gets it in its turn (the channel's semaphore is fair), however
\* often other senders fill the mailbox again.
GraphFairness ==
    /\ WF_vars(GHandle("store"))
    /\ SF_vars(GNotify)
FairGraphSpec == GraphSpec /\ GraphFairness

\* Every task that can run does; a handler's await of the LLM client returns;
\* build code goes on to start what it reserved; select! polls its ready arms
\* in random order, so a ready shutdown arm is not passed over forever.
SysFairness ==
    /\ \A a \in Actors : WF_vars(StartReserved(a))
    /\ \A a \in Actors : WF_vars(SysSelectRecv(a))
    /\ \A a \in Actors : SF_vars(SysSelectShutdown(a))
    /\ WF_vars(RateHandle)
    /\ WF_vars(WaiterFire)
    /\ WF_vars(SendAcquire)
    /\ WF_vars(PermitResolve)
    /\ WF_vars(\E res \in {"ok", "err"} : Generate(res))
FairSysSpec == Init /\ [][SysNext]_vars /\ SysFairness

\* The task loop may run whenever it can; a handle call returns.  tokio
\* schedules every ready task, and select! polls its ready arms in random
\* order, so a ready shutdown arm is not passed over forever.
CoreFairness ==
    /\ WF_vars(SelectRecv)
    /\ WF_vars(\E res \in {"ok", "err"}, st \in BOOLEAN : HandleReturn(res, st))
    /\ SF_vars(SelectShutdown)
    /\ \A a \in AddrIds : WF_vars(SendResolve(a))
FairNext == Next /\ nmsgs' <= LiveMsgs
FairSpec == Init /\ [][FairNext]_vars /\ CoreFairness

\* ------------------------------------------------------- claims, actor core
InSeq(m, q) == \E i \in 1 .. Len(q) : q[i] = m
Started == pc \in {"select", "handle", "done"}
Running == pc \in {"select", "handle"}

\* C1: once every address outside the task is dropped and the inbox is
\* drained, the mailbox closes and the task exits with Ok: in such a state the
\* loop's receive must be able to resolve (to None) without a stop request and
\* without a shutdown signal.
C1_DroppedAddrsCloseMailbox ==
    (pc = "select" /\ held = {} /\ mailbox = << >>
        /\ \A a \in AddrIds : call[a].st = "idle")
    => ENABLED SelectRecv

\* C2 (as claimed): every message whose send / try_send returned Ok is passed
\* to a handle call, in every run, also when the actor stops with it queued.
C2_EveryAcceptedIsHandled ==
    pc = "done" => \A m \in accepted : InSeq(m, handled)

\* C2 (amended): an accepted message is passed to at most one handle call; it
\* is never lost while the actor runs (it is queued or was handled), and a
\* running actor eventually handles it unless the actor stops first.
C2_NoLossWhileRunning ==
    /\ \A i, j \in 1 .. Len(handled) : handled[i] = handled[j] => i = j
    /\ \A i \in 1 .. Len(handled) :
          handled[i] \in accepted /\ ~InSeq(handled[i], mailbox)
    /\ \A m \in accepted : InSeq(m, handled) \/ InSeq(m, mailbox) \/ pc = "done"
\* (While the actor runs an accepted message is queued or handled, so the
\* mailbox of a running actor draining again and again means every accepted
\* message is handled unless the actor stops first.)
C2_AcceptedHandledOnceUnlessStopped ==
    /\ []C2_NoLossWhileRunning
    /\ []<>(pc = "done" \/ (Running /\ mailbox = << >>) \/ ~Started)
C2_Witness ==
    /\ pc = "done"
    /\ Len(handled) >= 1
    /\ \E m \in accepted : ~InSeq(m, handled)

\* C3: messages accepted from one address are handled in the order sent, none
\* twice, and a handle call has returned before the next one starts, whatever
\* other addresses send.
C3_FifoPerAddress ==
    /\ \A i, j \in 1 .. Len(handled) :
          (i < j /\ handled[i][1] = handled[j][1]) => handled[i][2] < handled[j][2]
    /\ \A i, j \in 1 .. Len(handled) : handled[i] = handled[j] => i = j
    /\ \A m \in active : m = handled[Len(handled)]
C3_Witness ==
    /\ Len(handled) = 3
    /\ handled[1][1] = handled[3][1]
    /\ handled[2][1] # handled[1][1]

\* C4: at most one handle call is in progress; no message is dequeued and no
\* shutdown signal is acted on while a handle call is in progress.
C4_SequentialDispatch ==
    /\ [](Cardinality(active) <= 1)
    /\ [][(Len(handled') > Len(handled) \/ sigPending' < sigPending)
            => active = {}]_vars
C4_Witness ==
    /\ pc = "handle"
    /\ Cardinality(active) = 1
    /\ mailbox # << >>
    /\ sigPending > 0
    /\ \E a \in AddrIds : call[a].st = "waiting"

\* C8: a handler error is terminal: the task ends with Err, queued messages
\* are dropped unhandled, no further handle call is made, and a send or
\* try_send issued after the exit returns Err with the caller's message.
C8_HandlerErrorIsTerminal ==
    /\ [](hres = "err" => (pc = "done" /\ join = "err" /\ mailbox = << >>))
    /\ [](join = "err" => hres = "err")
    /\ [](\A a \in AddrIds :
            (last[a].op # "none" /\ last[a].closed)
                => (~last[a].ok /\ last[a].ret = last[a].msg
                    /\ last[a].msg \notin accepted))
    /\ [][hres = "err" => (handled' = handled /\ pc' = "done" /\ join' = "err")]_vars
C8_Witness ==
    /\ join = "err"
    /\ \E m \in accepted : ~InSeq(m, handled)
    /\ \E a \in AddrIds : last[a].op = "send" /\ last[a].closed

\* C9: a handle call that sets the stop flag and returns Ok ends the task with
\* Ok at once, whatever is queued or held; a handle call that returns Ok with
\* the flag unset leaves the task selecting, the queue untouched.
C9_StopFlagEndsTask ==
    /\ []((ctxStop /\ hres = "ok" /\ pc # "handle") => (pc = "done" /\ join = "ok"))
    /\ [][(pc = "handle" /\ pc' # "handle" /\ hres' = "ok")
            => IF ctxStop'
               THEN pc' = "done" /\ join' = "ok" /\ handled' = handled
               ELSE pc' = "select" /\ join' = "pending" /\ mailbox' = mailbox
                    /\ rxOpen']_vars
C9_Witness ==
    /\ ctxStop /\ hres = "ok"
    /\ pc = "done" /\ join = "ok"
    /\ held # {}
    /\ \E m \in accepted : ~InSeq(m, handled)

\* C10: the mailbox never holds more than its capacity; try_send on a full
\* mailbox returns Err with the message passed in and changes nothing, try_send
\* with free space enqueues, send waits while the mailbox is full and fails
\* only when the receiver is gone, and the capacity never changes.
C10_BoundedMailbox ==
    /\ [](Len(mailbox) <= Capacity)
    /\ [](\A a \in AddrIds :
            /\ (last[a].op = "try_send" /\ last[a].full)
                  => (~last[a].ok /\ last[a].ret = last[a].msg)
            /\ (last[a].op = "try_send" /\ ~last[a].full /\ ~last[a].closed)
                  => (last[a].ok /\ last[a].msg \in accepted)
            /\ (last[a].op = "send" /\ ~last[a].ok) => last[a].closed)
    /\ [][\A a \in AddrIds :
            /\ (last'[a] # last[a] /\ ~last'[a].ok) => mailbox' = mailbox
            /\ (last'[a] # last[a] /\ last'[a].ok)
                  => (Len(mailbox) < Capacity /\ mailbox' = Append(mailbox, last'[a].msg))
         ]_vars
    /\ [][pc # "none" => Capacity' = Capacity]_vars
C10_Witness ==
    /\ Len(mailbox) = Capacity
    /\ rxOpen
    /\ \E a \in AddrIds : last[a].op = "try_send" /\ last[a].full /\ ~last[a].closed
    /\ \E a \in AddrIds : call[a].st = "waiting"

\* C11: an address of a Reserved accepts up to capacity messages while no task
\* runs (they are queued, none is handled or lost); the start leaves the queue
\* as it is; and while messages queued before the start remain, they are ahead
\* of every other queued message and the next handle call takes the oldest of
\* them, so they are handled in the order sent and before any message sent
\* after the start.
IsPrefix(p, q) == Len(p) <= Len(q) /\ \A i \in 1 .. Len(p) : q[i] = p[i]
C11_QueuedBeforeStartHandledFirst ==
    /\ [](pc = "reserved" =>
            /\ handled = << >> /\ active = {}
            /\ Len(mailbox) <= Capacity
            /\ \A m \in accepted : InSeq(m, mailbox)
            /\ Len(mailbox) = Cardinality(accepted)
            /\ \A a \in AddrIds :
                  (last[a].op = "try_send" /\ ~last[a].full) => last[a].ok)
    /\ [][(pc = "reserved" /\ pc' # "reserved")
            => (mailbox' = mailbox /\ rxOpen' /\ handled' = << >>)]_vars
    /\ [](Running => IsPrefix(preStart, mailbox))
    /\ [][(Len(handled') > Len(handled) /\ preStart # << >>)
            => handled'[Len(handled')] = Head(preStart)]_vars
C11_Witness ==
    /\ Running
    /\ Len(handled) = 1
    /\ preStart # << >>
    /\ Len(mailbox) > Len(preStart)
    /\ mailbox[Len(mailbox)][1] = preStart[1][1]

\* ---------------------------------------------------- claims, wired system
\* C5: once a signal has been broadcast to the receiver of a started actor,
\* the actor's task ends and its join-future resolves, whether the actor was
\* idle, had messages queued, or was in a handle call awaiting a send to or a
\* reply from its peer.
C5_SignalStopsEveryActor ==
    \A a \in Actors :
        (SysStarted(a) /\ sSig[a] > 0) ~> (sPc[a] = "done" /\ sJoin[a] # "pending")
C5_Witness ==
    /\ sSig["llm"] > 0
    /\ sSig["rate"] > 0
    /\ sPc["llm"] = "handle"
    /\ hpc = "sending"
    /\ Len(sMailbox["rate"]) = SysCap
    /\ sMailbox["llm"] # << >>

\* C6: a shutdown signal does not by itself produce errors: unless a handler
\* failed on its own, every join-future resolves to Ok and graceful_shutdown
\* returns Ok.
C6_ShutdownProducesNoError ==
    ~extFail => ((\A a \in Actors : sJoin[a] # "err") /\ gsResult # "err")

\* C7: graceful_shutdown returns only after every tracked task has completed,
\* and abandons none of them.
C7_ShutdownJoinsEveryTrackedTask ==
    gs = "returned" =>
        \A a \in Actors : tracked[a] # "none" => (tracked[a] # "aborted" /\ sPc[a] = "done")

\* C12: a shutdown receiver made after a signal was fired does not observe it:
\* a signal fired while an actor is reserved is not kept for it, the receiver
\* made at its start is empty, and the actor leaves its loop through the
\* shutdown arm only on a signal fired after its start.
C12_LateSubscriberMissesSignal ==
    /\ [](\A a \in Actors : sPc[a] = "reserved" => sSig[a] = 0)
    /\ [][\A a \in Actors :
            (sPc[a] = "reserved" /\ sPc'[a] # "reserved")
                => (sSig'[a] = 0 /\ sPc'[a] = "select" /\ sSub'[a])]_vars
    /\ [][\A a \in Actors :
            (sPc[a] = "select" /\ sPc'[a] = "done" /\ sJoin'[a] = "ok")
                => sSig[a] > 0]_vars
    /\ [][\A a \in Actors :
            (SysStarted(a) /\ sSig'[a] > sSig[a])
                => (nsignals' > nsignals \/ gs' = "joining")]_vars
C12_Witness ==
    /\ nsignals > 0
    /\ gs = "build"
    /\ sPc["rate"] = "done"
    /\ sPc["llm"] = "select"
    /\ sSig["llm"] = 0
    /\ sMailbox["llm"] = << >>

\* C13 (the wait and the order of the teardown): run_until_ctrl_c leaves its
\* wait only on the interrupt or on a signal broadcast during the wait, and in
\* leaving it drops the published addresses and fires the shutdown signal to
\* every started actor before the first join.
C13_LeavesWaitClearsThenSignals ==
    /\ [][(gs = "wait" /\ gs' # "wait")
            => (/\ gs' = "joining"
                /\ ~bAddrs'
                /\ tracked' = tracked
                /\ \A a \in Actors : sSig'[a] > sSig[a])]_vars
    /\ [][gsSig' > gsSig => (gs = "wait" /\ nsignals' > nsignals)]_vars
    /\ []((gs = "returned" /\ gsResult = "ok") =>
            \A a \in Actors : sPc[a] = "done" /\ tracked[a] = "joined")
\* C13 (as claimed): run_until_ctrl_c returns once all the tracked tasks have
\* finished.
C13_ReturnsOnceAllTasksFinished ==
    (gs = "returned" /\ ~bAddrs) => \A a \in Actors : sPc[a] = "done"

\* ------------------------------------------ claims, registry and addresses
\* The last insert into map mp under key k, NoEntry if there was none.
RECURSIVE LastInsert(_, _, _)
LastInsert(log, mp, k) ==
    IF log = << >> THEN NoEntry
    ELSE LET e == log[Len(log)] IN
         IF e.map = mp /\ e.key = k THEN Entry(e.ty, e.val)
         ELSE LastInsert(SubSeq(log, 1, Len(log) - 1), mp, k)
Expected(e, T) == IF e.ty = T THEN e.val ELSE NoneVal

\* C14: reserving a name that is already reserved fails at the call: no second
\* Reserved is handed out for the same actor type and name, and the address
\* published under the name is the one of the only Reserved.
C14_SecondReserveFails ==
    \A r1, r2 \in reservedSet :
        (r1.name = r2.name /\ r1.ty = r2.ty) => r1.id = r2.id

\* C15: get_named::<T>(k) is the value most recently inserted under k if it
\* has type T, and None when nothing was inserted under k or the value has
\* another type; an insert under one key changes no lookup under another key.
\* Builder::addr follows the same rule over the names published.
C15_LookupReturnsLastInsert ==
    /\ [](\A k \in RegKeys, T \in ValueTypes :
            GetNamed(T, k) = Expected(LastInsert(regLog, "reg", k), T))
    /\ [](\A n \in Names, A \in ActorTypes :
            BuilderAddr(A, n) = Expected(LastInsert(regLog, "builder", n), TypeName(A)))
    /\ [][\A k \in RegKeys, T \in ValueTypes :
            LastInsert(regLog', "reg", k) = LastInsert(regLog, "reg", k)
                => GetNamed(T, k)' = GetNamed(T, k)]_vars
C15_Witness ==
    /\ \E k \in RegKeys, T1, T2 \in ValueTypes :
          /\ T1 # T2
          /\ GetNamed(T1, k) = MaxInserts
          /\ GetNamed(T2, k) = NoneVal
          /\ \E i \in 1 .. Len(regLog) :
                regLog[i].map = "reg" /\ regLog[i].key = k /\ regLog[i].ty = T2
    /\ \E k \in RegKeys : regByName[k] = NoEntry
    /\ \E k \in RegKeys : regByName[k] # NoEntry /\ regByName[k].val < MaxInserts

\* C16 (registry half): get_addr finds each type's own address when two actor
\* types share a name.
C16_RegistryKeepsTypesApart ==
    \A r \in reservedSet :
        (Len(regLog) = 2 * Cardinality(reservedSet)
            /\ \A r2 \in reservedSet : (r2.name = r.name /\ r2.ty = r.ty) => r2 = r)
        => GetAddr(r.ty, r.name) = r.id
\* C16 (as claimed): after reserve::<A>(n) and reserve::<B>(n), each made once
\* and in either order, the lookups of n for A and for B return that type's
\* own address, through Registry::get_addr and through Builder::addr.
C16_SharedNameNoCollision ==
    \A r \in reservedSet :
        (Len(regLog) = 2 * Cardinality(reservedSet)
            /\ \A r2 \in reservedSet : (r2.name = r.name /\ r2.ty = r.ty) => r2 = r)
        => (GetAddr(r.ty, r.name) = r.id /\ BuilderAddr(r.ty, r.name) = r.id)

\* ------------------------------------------------------ claims, rate limiter
AllAcquires == waiters \cup permits
\* Acquires on the same key handled at the same instant before w, all under
\* the configuration w saw.
SameInstantBefore(w) ==
    {v \in AllAcquires : v.key = w.key /\ v.at = w.at /\ v.id < w.id}
BackToBack(w) ==
    /\ w.burst = 1 /\ w.qps > 0 /\ w.cost = 1
    /\ \A v \in SameInstantBefore(w) :
          v.burst = w.burst /\ v.qps = w.qps /\ v.cost = w.cost

\* C17: waits of acquires on a depleted bucket stack: of the Acquire{k, 1}
\* handled at the same instant t on a bucket of burst 1, the i-th (i = 0, 1,
\* ...) has its permit delivered no earlier than t + i/qps.
C17_WaitsStack ==
    \A w \in permits :
        BackToBack(w) =>
            2 * now >= 2 * w.at + Cardinality(SameInstantBefore(w)) * (2 \div w.qps)

\* C18: every bucket has 0 <= tokens <= burst after any sequence of Upsert and
\* Acquire messages.
C18_TokensWithinBurst ==
    \A k \in RateKeys :
        buckets[k] # NoBucket =>
            (0 <= buckets[k].tokens /\ buckets[k].tokens <= buckets[k].burst)

\* C19: an Upsert with qps <= 0 is not stored, so no bucket has qps <= 0 and
\* no Acquire is given an infinite wait.
C19_NonPositiveQpsNotStored ==
    /\ \A k \in RateKeys : buckets[k] # NoBucket => buckets[k].qps > 0
    /\ rlPc = "running"

\* C20: handling an Acquire never blocks the limiter: the handle call returns
\* at the instant it started, with the permit left to a waiter; whatever
\* permits are pending, the next Upsert or Acquire can be handled, and a
\* waiter whose wait is over can deliver.
C20_AcquireNeverBlocks ==
    /\ []((rlPc = "running" /\ nacq < MaxAcquires) =>
            \A k \in RateKeys, c \in CostValues : ENABLED RateAcquire(k, c))
    /\ []((rlPc = "running" /\ nups < MaxRateUpserts) =>
            \A k \in RateKeys :
                ENABLED (\E c \in UpsertCfgs : RateUpsert(k, c.qps, c.burst)))
    /\ [](\A w \in waiters : 2 * now >= w.due2 => ENABLED RateWaiterFire(w.id))
    /\ [][nacq' > nacq =>
            (now' = now /\ permits' = permits
             /\ (rlPc' = "running" => Cardinality(waiters') = Cardinality(waiters) + 1))]_vars
    /\ [][\A w \in waiters' \ waiters :
            (\/ buckets[w.key] = NoBucket
             \/ MinOf(buckets[w.key].tokens, buckets[w.key].burst) >= w.cost)
            => w.due2 = 2 * now]_vars
C20_Witness ==
    /\ nups > 0
    /\ \E w1 \in waiters, w2 \in permits :
          /\ w1.id < w2.id
          /\ w1.key # w2.key
          /\ 2 * now < w1.due2
          /\ buckets[w1.key].qps = 2

\* The refilled token count r = min(tokens + (t - last) * qps, burst).
Refilled(bk, t) ==
    LET x == bk.tokens + (t - bk.last) * bk.qps IN
      IF x < bk.burst THEN x ELSE bk.burst
\* The bucket an Acquire works on: the stored one, or a full bucket of
\* qps 1, burst 1 made at the time of the call.
BucketAt(k) ==
    IF buckets[k] = NoBucket
    THEN [qps |-> 1, burst |-> 1, tokens |-> 1, last |-> now]
    ELSE buckets[k]

\* C21: an Acquire{key, cost} handled at time t on a bucket of qps > 0 has its
\* permit sent no earlier than t + max(0, (cost - r)/qps) with r the refilled
\* token count; if r >= cost the wait is zero and tokens become r - cost,
\* otherwise tokens become 0; last becomes t.
C21_WaitIsDeficitOverQps ==
    /\ [](\A w \in permits : 2 * now >= w.due2)
    /\ [][\A k \in RateKeys, c \in CostValues :
            RateAcquire(k, c) =>
              LET bk == BucketAt(k)
                  r == Refilled(bk, now) IN
                /\ buckets'[k].last = now
                /\ buckets'[k].tokens = (IF r >= c THEN r - c ELSE 0)
                /\ bk.qps > 0 =>
                     \E w \in waiters' \ waiters :
                        /\ w.id = nacq' /\ w.key = k /\ w.at = now
                        /\ w.due2 = 2 * now +
                             (IF r >= c THEN 0 ELSE (2 * (c - r)) \div bk.qps)]_vars
\* A permit that had to wait has been delivered, and a later Acquire on the
\* same key found the bucket refilled by the passage of time.
C21_Witness ==
    \E w1 \in permits, w2 \in waiters \cup permits :
        /\ w1.key = w2.key
        /\ w1.due2 > 2 * w1.at
        /\ w2.at > w1.at
        /\ w2.due2 = 2 * w2.at
        /\ buckets[w1.key].tokens = 0

\* ---------------------------------------------------- claims, store actor

\* Write tasks that hold the write permit: writing, or waiting to enqueue the
\* notification before they drop it.
WriteHolders == {t \in TaskIds : stTasks[t].pc \in {"writing", "notify"}}

\* C22: store writes are mutually exclusive and reads are not gated: at most
\* one write task holds the write permit and executes its write, while a query
\* never takes the permit and can complete whoever holds or awaits it.
C22_WritesExclusiveReadsFree ==
    /\ [](Cardinality(WriteHolders) <= 1)
    /\ [](\A t \in TaskIds : (t \in WriteHolders) <=> (stPermit = t))
    /\ [](stRead.st = "running" => ENABLED ReadFinish)
    /\ [][stRead' # stRead => (stPermit' = stPermit /\ stTasks' = stTasks)]_vars
\* A query has replied while one write task held the permit, which it still
\* holds with another write task waiting for it.
C22_Witness ==
    /\ stRead = [st |-> "replied", held |-> TRUE]
    /\ stPermit # 0
    /\ \E t \in TaskIds : stTasks[t].pc = "acquire"

\* A notification for claim c is queued in the store's mailbox.
NotificationQueued(c) ==
    \E i \in 1 .. Len(stMailbox) :
        stMailbox[i].op = "ArtifactUpserted" /\ stMailbox[i].claim = c

\* C23: for each relevant UpsertArtifact whose write succeeds, every watcher
\* listed for the claim when the notification is enqueued gets exactly one
\* fire, in every run: until it has fired (or its receiver is dropped by its
\* owner) the watcher is still listed by a running actor with the
\* notification queued.
C23_EveryOwedWatcherFires ==
    \A w \in stOwed :
        /\ stW[w].rx = "open"
        /\ stPc = "running"
        /\ w \in SeqRange(stWatchers[stW[w].claim])
        /\ NotificationQueued(stW[w].claim)

\* C24: a watcher listed strictly after the store write of the latest relevant
\* upsert for its claim has completed is not fired until a later relevant
\* upsert for that claim succeeds.
C24_LateWatcherNotFired ==
    [][\A w \in WatcherIds :
          (stW[w].rx = "open" /\ stW'[w].rx = "fired") => stW[w].since]_vars

CountUpserted(q, c) ==
    Cardinality({i \in 1 .. Len(q) :
        q[i].op = "ArtifactUpserted" /\ q[i].claim = c})
\* The step is the handling of the head of the mailbox, a message of kind op.
HandledHead(op) ==
    /\ stPc = "running" /\ stPc' = "running"
    /\ stMailbox # << >>
    /\ Head(stMailbox).op = op
    /\ stMailbox' = Tail(stMailbox)

\* C28: ArtifactUpserted{claim} is enqueued only by a write task, after the
\* store write of an UpsertArtifact with claim_relevance = true for that claim
\* has succeeded; a failed write, an irrelevant upsert, an InsertClaim or an
\* upsert for another claim never fires the claim's watchers.
C28_NotifyOnlyAfterRelevantSuccess ==
    /\ [](\A t \in TaskIds :
            stTasks[t].pc = "notify" =>
                (stTasks[t].kind = "upsert" /\ stTasks[t].rel /\ stTasks[t].ok))
    /\ [][\A t \in TaskIds :
            stTasks'[t].pc = "notify" =>
                (stTasks[t].pc \in {"writing", "notify"}
                 /\ stTasks'[t].claim = stTasks[t].claim)]_vars
    /\ [][\A c \in Claims :
            CountUpserted(stMailbox', c) > CountUpserted(stMailbox, c) =>
                \E t \in TaskIds :
                    /\ stTasks[t].pc = "notify" /\ stTasks[t].claim = c
                    /\ stTasks'[t].pc = "idle"]_vars
    /\ [][\A w \in WatcherIds :
            (stW[w].rx = "open" /\ stW'[w].rx = "fired") =>
                (/\ HandledHead("ArtifactUpserted")
                 /\ Head(stMailbox).claim = stW[w].claim)]_vars
\* The notification of a relevant upsert of c2 has been handled: c2's watcher
\* is fired, and the watcher of c1 listed before it is still waiting.
C28_Witness ==
    /\ stLastFire = << 2 >>
    /\ stW[2].rx = "fired"
    /\ stWatchers["c1"] = << 1 >>
    /\ stW[1].rx = "open"
    /\ stSent = 3

\* C29: handling ArtifactUpserted{c} removes the whole watcher entry of c,
\* sends one fire to each removed watcher in insertion order and leaves the
\* entries of other claims alone; fired watchers are no longer stored, so a
\* second ArtifactUpserted{c} fires nothing and no watcher is fired twice.
C29_FireDrainsOneEntry ==
    /\ [][HandledHead("ArtifactUpserted") =>
            LET c == Head(stMailbox).claim IN
              /\ stWatchers'[c] = << >>
              /\ stLastFire' = stWatchers[c]
              /\ \A d \in Claims \ {c} : stWatchers'[d] = stWatchers[d]
              /\ \A w \in WatcherIds :
                    IF w \in SeqRange(stWatchers[c]) /\ stW[w].rx = "open"
                    THEN stW'[w].rx = "fired"
                    ELSE stW'[w] = stW[w]]_vars
    /\ [](\A c \in Claims : \A i \in 1 .. Len(stWatchers[c]) :
            /\ stW[stWatchers[c][i]].rx \in {"open", "closed"}
            /\ \A d \in Claims : \A j \in 1 .. Len(stWatchers[d]) :
                  stWatchers[c][i] = stWatchers[d][j] => (c = d /\ i = j))
\* Two watchers of one claim fired by one notification, in the order they
\* were listed, and nothing left stored.
C29_Witness ==
    /\ stLastFire = << 1, 2 >>
    /\ stW[1].rx = "fired" /\ stW[2].rx = "fired"
    /\ \A c \in Claims : stWatchers[c] = << >>

\* C30: after WatchArtifacts{c, reply} the list of c is its entries that were
\* still open, in their order, followed by reply; lists of other claims are
\* not swept, and a closed watcher of c stays stored until the next
\* WatchArtifacts{c} or ArtifactUpserted{c} (or the end of the actor).
C30_WatchSweepsClosedThenAppends ==
    /\ [][HandledHead("WatchArtifacts") =>
            LET c == Head(stMailbox).claim IN
              /\ stWatchers'[c] =
                    SelectSeq(stWatchers[c], LAMBDA w : stW[w].rx = "open")
                    \o << Head(stMailbox).id >>
              /\ \A d \in Claims \ {c} : stWatchers'[d] = stWatchers[d]]_vars
    /\ [][\A c \in Claims : \A w \in SeqRange(stWatchers[c]) :
            (stW[w].rx = "closed" /\ w \notin SeqRange(stWatchers'[c])) =>
                \/ stPc' = "stopped"
                \/ /\ stMailbox # << >>
                   /\ Head(stMailbox).claim = c
                   /\ Head(stMailbox).op \in {"WatchArtifacts", "ArtifactUpserted"}]_vars
\* Watcher 1 of c1 was closed and has been swept by a later WatchArtifacts{c1},
\* while the closed watcher 2 of c2 is still stored.
C30_Witness ==
    /\ stW[1] = [claim |-> "c1", rx |-> "closed", since |-> FALSE]
    /\ stW[2].rx = "closed"
    /\ stWatchers["c2"] = << 2 >>
    /\ stWatchers["c1"] = << 3 >>
    /\ stW[3].rx = "open"
\* C31: a failed InsertClaim or UpsertArtifact write is only logged: the
\* actor's state and mailbox are untouched, and the permit is free again in
\* the same step, so a waiting write can take it. The permit is held exactly
\* by the task that is writing or sending its notification: a task gives it
\* up once, when it ends, and a successful relevant upsert keeps it until
\* the ArtifactUpserted send is over.
C31_FailedWriteOnlyLogged ==
    /\ [](\A t \in TaskIds :
             (stPermit = t) <=> (stTasks[t].pc \in {"writing", "notify"}))
    /\ [][\A t \in TaskIds :
             WriteFinish(t, FALSE) =>
                /\ stLogged'
                /\ stPc' = stPc /\ stMailbox' = stMailbox
                /\ stPermit = t /\ SemAvailable'
                /\ stTasks'[t] = NoTask]_vars
    /\ [][\A t \in TaskIds :
             (stPermit = t /\ stPermit' # t) =>
                (stPermit' = 0 /\ stTasks'[t] = NoTask)]_vars
    /\ [][\A t \in TaskIds :
             (WriteFinish(t, TRUE) /\ stTasks[t].kind = "upsert" /\ stTasks[t].rel)
                => (stPermit' = t /\ stTasks'[t].pc = "notify")]_vars

\* A write has failed, the actor still runs, and a later task is writing
\* under the permit.
C31_Witness ==
    /\ stLogged
    /\ stPc = "running"
    /\ \E t \in TaskIds : stTasks[t].pc = "writing" /\ stPermit = t
\* ------------------------------------------------------ claims, supervise

\* C25: once a shutdown signal has been broadcast to its receiver, supervise
\* eventually returns Ok(()), whether it was awaiting the run-once future,
\* sleeping in a backoff, or restarting a unit that fails at once every time.
C25_ShutdownEndsSupervise ==
    /\ supSig ~> (supPc = "returned" /\ supResult = "ok")
    /\ [](supPc = "returned" => supResult = "ok")
\* The signal came during a backoff sleep after the unit had failed
\* MaxRestarts times or more, and supervise has returned by its shutdown branch.
C25_Witness ==
    /\ supPc = "returned"
    /\ supFut = "dropped"
    /\ supSigAt = "sleeping"
    /\ supRestarts = MaxRestarts

RECURSIVE Pow2(_)
Pow2(n) == IF n = 0 THEN 1 ELSE 2 * Pow2(n - 1)
\* min(100 ms * 2^(n-1), 30 s)
ExpectedSleepMs(n) ==
    IF 100 * Pow2(n - 1) < 30000 THEN 100 * Pow2(n - 1) ELSE 30000

\* C26: the sleep before the n-th restart (n >= 1) is min(100 ms * 2^(n-1),
\* 30 s); the backoff never decreases or resets; the factory is called exactly
\* once per attempt; a run-once success makes supervise return Ok(()) with no
\* further factory call.
C26_BackoffDoublesToCeiling ==
    /\ [](supPc = "sleeping" =>
            (supRestarts >= 1 /\ supSleep = ExpectedSleepMs(supRestarts)))
    /\ [][supBackoff' >= supBackoff]_vars
    /\ [](supRestarts < MaxRestarts =>
            supCalls = (IF supPc = "select" \/ supFut = "dropped" \/ supResult = "ok"
                        THEN supRestarts + 1 ELSE supRestarts))
    /\ [][(supPc = "select" /\ supFut = "ok" /\ supPc' # supPc) =>
            (supPc' = "returned" /\ supResult' = "ok")]_vars
    /\ [][supPc = "returned" => (supCalls' = supCalls /\ supPc' = "returned")]_vars
\* The tenth failure: the first sleep held down to the 30 s ceiling.
C26_Witness ==
    /\ supPc = "sleeping"
    /\ supRestarts = 10
    /\ supSleep = 30000
    /\ supBackoff = 30000

\* ------------------------------------------- claims, configuration expansion
\* The only reference of the string is to a variable that is not set.
OnlyUnsetRef(str) ==
    /\ Cardinality({i \in 1 .. Len(str) : IsRef(str[i])}) = 1
    /\ \A i \in 1 .. Len(str) : IsRef(str[i]) => ~cfgEnv[RefVar[str[i]]].set

\* C27: expand_env_in_value terminates for every value and environment,
\* mutually recursive definitions included: each string is expanded at most
\* MAXIMUM_ENV_EXPANSION_DEPTH (8) times, expansion stops at the first pass
\* that changes nothing, a string whose only reference is to an unset variable
\* is left unchanged, and non-string scalars are untouched.
C27_ExpansionTerminates ==
    /\ <>(cfgPc = "done")
    /\ [](cfgPass <= 8)
    /\ [][(cfgPc = "loop" /\ cfgPass < 8 /\ cfgPass' = cfgPass + 1
           /\ Substitute(cfgCur, cfgEnv) = cfgCur) =>
            (cfgPc' # "loop" /\ cfgVal'[cfgIdx].str = cfgCur)]_vars
    /\ [](\A i \in 1 .. Len(cfgIn) :
            /\ (cfgIn[i].tag = "string" /\ OnlyUnsetRef(cfgIn[i].str))
                   => cfgVal[i] = cfgIn[i]
            /\ cfgIn[i].tag # "string" => cfgVal[i] = cfgIn[i])
\* A = ${B}, B = ${A}: the loop ran its eight passes on "x${A}y" and left a
\* reference in it.
C27_Witness ==
    /\ cfgPc = "done"
    /\ cfgPass = 8
    /\ cfgEnv["A"] = SetTo(<< "$B" >>)
    /\ cfgEnv["B"] = SetTo(<< "$A" >>)
    /\ cfgIn[Len(cfgIn)] = StrLeaf(<< "x", "$A", "y" >>)
    /\ ContainsDollar(cfgVal[Len(cfgIn)].str)
    /\ cfgIn[1].tag = "number"

\* ---------------------------------- claims, published addresses (second part)

\* The log positions at which the Builder published an actor: the insert
\* into Builder.addrs, followed by the registry insert of the same address.
Publications ==
    {i \in 1 .. Len(regLog) - 1 :
        regLog[i].map = "builder" /\ regLog[i + 1].val = regLog[i].val}
\* Nothing was inserted later under the name or under the composed key.
StillPublished(i, A) ==
    \A j \in i + 2 .. Len(regLog) :
        regLog[j].key \notin {regLog[i].key, AddrKey(A, regLog[i].key)}

\* C35: an actor published by the Builder, through reserve or through spawn,
\* is found under its name by Builder::addr::<A> and by
\* registry().get_addr::<A>, and both give the address of its mailbox.
C35_PublishedFoundBothWays ==
    \A i \in Publications, A \in ActorTypes :
        (regLog[i].ty = TypeName(A) /\ StillPublished(i, A)) =>
            /\ BuilderAddr(A, regLog[i].key) = regLog[i].val
            /\ GetAddr(A, regLog[i].key) = regLog[i].val

\* ------------------------------------------------- claims, reply channels

\* C32: a dropped receiver is never an error, and both handle calls return
\* Ok for every message. The limiter's handle does to the bucket of an
\* Acquire exactly what needed_wait does for a requester that is waiting,
\* whatever the state of the receiver, and leaves the limiter running; so
\* does every Upsert; the waiter's send, delivered or not, changes neither
\* the buckets nor the limiter task. The store's task is ended by no message
\* it handles and by no reply it sends or fails to send.
C32_ClosedReplyIsNoError ==
    /\ [][\A r \in SoloReqs :
             RateAcquireRx(SoloKey, r.cost, r.rx) =>
                /\ buckets'[SoloKey] = NeededWait(BucketAt(SoloKey), r.cost, now).b
                /\ rlPc' = "running"]_vars
    /\ [][\A i \in 1 .. MaxAcquires :
             RateWaiterFire(i) => (rlPc' = rlPc /\ buckets' = buckets)]_vars
    /\ [][nups' > nups => rlPc' = "running"]_vars
    /\ [][(ReadFinish \/ ReadReplyDropped \/ HandleRead \/ HandleWatch
             \/ HandleArtifactUpserted \/ HandleInsertClaim
             \/ HandleUpsertArtifact) => stPc' = stPc]_vars

\* ------------------------------------------- claims, rate limiter (second part)

\* Every Acquire handled so far on key k.
AcquiresOn(k) == {w \in AllAcquires : w.key = k}
\* The Acquires on k so far are one run of Acquire{k, 1} handled at the same
\* instant on a bucket whose configuration is the one it was created with:
\* at most one Upsert has been handled at all, and every Acquire saw the same
\* configuration.
FreshRun(k) ==
    /\ nups <= 1
    /\ AcquiresOn(k) # {}
    /\ \A v, w \in AcquiresOn(k) :
          v.at = w.at /\ v.qps = w.qps /\ v.burst = w.burst
    /\ \A w \in AcquiresOn(k) : w.cost = 1 /\ w.qps > 0
RankOn(w) == Cardinality({v \in AcquiresOn(w.key) : v.id < w.id})

\* C33: a created bucket starts full. An Upsert on an unknown key stores
\* tokens = burst; of a run of Acquire{k, 1} at one instant on a bucket as
\* created, by Upsert(k, qps, b) or with qps 1, burst 1 by the first Acquire
\* on an unknown key, the first b get a zero wait and the (b+1)-th waits
\* 1/qps.
C33_CreatedBucketStartsFull ==
    /\ [](\A k \in RateKeys :
            FreshRun(k) =>
               \A w \in AcquiresOn(k) :
                  /\ RankOn(w) < w.burst => w.due2 = 2 * w.at
                  /\ RankOn(w) = w.burst => w.due2 = 2 * w.at + 2 \div w.qps
                  /\ nups = 0 => (w.qps = 1 /\ w.burst = 1))
    /\ [][\A k \in RateKeys :
            (nups' > nups /\ buckets[k] = NoBucket /\ buckets'[k] # NoBucket)
               => (buckets'[k].tokens = buckets'[k].burst
                   /\ buckets'[k].last = now)]_vars

\* After Upsert(k, 2, 1) two Acquire{k, 1} at one instant: the first with a
\* zero wait, the second waiting half a tick; and on the other key, never
\* upserted, an Acquire served at once from the default bucket.
C33_Witness ==
    /\ nups = 1
    /\ \E k \in RateKeys :
          /\ FreshRun(k)
          /\ \E v, w \in AcquiresOn(k) :
                /\ v.qps = 2 /\ v.burst = 1
                /\ RankOn(v) = 0 /\ v.due2 = 2 * v.at
                /\ RankOn(w) = 1 /\ w.due2 = 2 * w.at + 1
          /\ \E j \in RateKeys \ {k} :
                \E u \in AcquiresOn(j) :
                   u.qps = 1 /\ u.burst = 1 /\ u.due2 = 2 * u.at

\* An Acquire{SoloKey, 0} step gives a zero wait, keeps the limiter running
\* and touches nothing but tokens and last of its own bucket.
ZeroCostStep ==
    LET bk == BucketAt(SoloKey) IN
      /\ rlPc' = rlPc
      /\ \E w \in waiters' \ waiters : w.cost = 0 /\ w.due2 = 2 * now
      /\ \A j \in RateKeys \ {SoloKey} : buckets'[j] = buckets[j]
      /\ buckets'[SoloKey].last = now
      /\ buckets'[SoloKey].qps = bk.qps /\ buckets'[SoloKey].burst = bk.burst

\* C34: Acquire with cost 0 is given a zero wait on any bucket, an empty one
\* included, never ends the limiter, leaves every other key's bucket as it
\* was and leaves the tokens of its own bucket at their refilled value.
C34_ZeroCostIsImmediate ==
    /\ [][RateAcquireRx(SoloKey, 0, "open") =>
            /\ ZeroCostStep
            /\ buckets'[SoloKey].tokens = Refilled(BucketAt(SoloKey), now)]_vars
    /\ [](\A w \in waiters : w.cost = 0 => ENABLED RateWaiterFire(w.id))

\* The configuration of k has been the same for every Acquire on k: at most
\* one Upsert was handled, and every Acquire saw what the bucket holds now.
ConfigFixed(k) ==
    /\ nups <= 1
    /\ buckets[k] # NoBucket
    /\ \A w \in AcquiresOn(k) :
          w.qps = buckets[k].qps /\ w.burst = buckets[k].burst
RECURSIVE SumCost(_)
SumCost(S) ==
    IF S = {} THEN 0
    ELSE LET w == CHOOSE x \in S : TRUE IN w.cost + SumCost(S \ {w})
\* The permits for k requested at s or later and sent by now: all of them
\* were delivered in the interval from s to now.
DeliveredSince(k, s) == {w \in permits : w.key = k /\ w.at >= s}

\* C36: for a key of fixed configuration, the permits delivered in an
\* interval of length T cost at most burst + qps * T in total.
C36_ThroughputBounded ==
    \A k \in RateKeys, s \in 0 .. now :
        ConfigFixed(k) =>
            SumCost(DeliveredSince(k, s))
                <= buckets[k].burst + buckets[k].qps * (now - s)

\* ------------------------------------------ claims, store actor (second part)

\* Task t begins its store write in this step.
WriteBegins(t) == stTasks[t].pc = "acquire" /\ stTasks'[t].pc = "writing"

\* C37 (amended): store writes are applied one at a time, in the order in
\* which their tasks get the write permit: a write begins only when no other
\* write task is writing or sending its notification, whichever of the two
\* messages was handled first.
C37_WritesOneAtATime ==
    /\ [][\A t \in TaskIds :
             WriteBegins(t) =>
                /\ \A u \in TaskIds \ {t} :
                      stTasks[u].pc \notin {"writing", "notify"}
                /\ \A u \in TaskIds \ {t} : ~WriteBegins(u)]_vars
    /\ [](\A t, u \in TaskIds :
             (t # u /\ stTasks[t].pc \in {"writing", "notify"})
                => stTasks[u].pc \in {"idle", "acquire"})

\* The task of the message handled second is writing while the task of the
\* message handled first still waits for the permit.
C37_Witness ==
    \E u, t \in TaskIds :
        /\ u < t
        /\ stTasks[u].pc = "acquire" /\ stTasks[u].kind = "insert"
        /\ stTasks[t].pc = "writing" /\ stTasks[t].kind = "upsert"
        /\ stTasks[t].claim = stTasks[u].claim

\* C37 as first stated: of two write messages handled in the order w1, w2
\* (tasks u < t), the write of w2 does not begin before that of w1 is over.
C37_WritesInHandlingOrder ==
    \A u, t \in TaskIds :
        (u < t /\ stTasks[u].pc = "acquire")
            => stTasks[t].pc \notin {"writing", "notify"}

\* ------------------------------------------ claims, wired system (second part)

\* C38: no requester waits forever on the limiter: an Acquire accepted into
\* the limiter's mailbox ends with its permit sent or with its reply sender
\* dropped, also when the limiter stops with the Acquire queued or with the
\* waiter still sleeping; and the requester's wait on the receiver ends.
C38_EveryAcquireEnds ==
    /\ (permit \in {"queued", "waiter"}) ~> (permit \in {"sent", "dropped"})
    /\ (hpc = "waiting") ~> (hpc # "waiting")

\* The limiter has stopped while the waiter of a handled Acquire sleeps and
\* the requester waits on its receiver.
C38_Witness ==
    /\ sPc["rate"] = "done"
    /\ permit = "waiter"
    /\ hpc = "waiting"
    /\ sPc["llm"] = "handle"

\* ------------------------------------------- claims, supervise (second part)

\* C39: once a shutdown signal is queued in the supervisor's receiver, the
\* factory is not called again and no new run-once attempt is made, also when
\* the signal came during a backoff sleep.
C39_NoFactoryCallAfterSignal ==
    [][supSig =>
         /\ ~(\E f \in {"pending", "ok", "err"} : SupSelect(f))
         /\ (supFut = "none" => supFut' = "none")]_vars

\* ------------------------------------------------ claims, wired actor graph
\* The handle call of the actor waits: for room in the mailbox it sends to,
\* or for a reply that has not come.
Blocked(a) ==
    /\ gRun[a] # << >>
    /\ \/ Head(gRun[a]).op = "send" /\ ~GRoom(Head(gRun[a]).to)
       \/ Head(gRun[a]).op = "await"
\* The actor whose progress ends the wait.
WaitsOn(a) == Head(gRun[a]).to
SendEdges ==
    {<< "tui", "twitter" >>, << "twitter", "llm" >>, << "llm", "store" >>,
     << "chat", "store" >>, << "llm", "rate" >>, << "chat", "rate" >>,
     << "twitter", "rate" >>}

\* C40: the wired graph cannot deadlock on full mailboxes: handlers await
\* sends and replies only along TuiActor -> TwitterSearchActor -> LlmActor ->
\* StoreActor, ChatLlmActor -> StoreActor and LlmActor / ChatLlmActor /
\* TwitterSearchActor -> RateLimiter; the handlers of StoreActor and
\* RateLimiter never wait; no set of actors is ever blocked each on a member
\* of the set; and the store's write task waiting to enqueue ArtifactUpserted
\* under the write permit is always eventually unblocked.
C40_NoDeadlockOnFullMailboxes ==
    /\ [](\A a \in GActors :
            (gRun[a] # << >> /\ Head(gRun[a]).op \in {"send", "await"})
                => << a, WaitsOn(a) >> \in SendEdges)
    /\ [](~Blocked("store") /\ ~Blocked("rate"))
    /\ [](\A S \in SUBSET GActors :
            S # {} => \E a \in S : ~(Blocked(a) /\ WaitsOn(a) \in S))
    /\ (gHold = "notify") ~> (gHold # "notify")

\* The store's mailbox is full: the LLM actor's handler waits to send its
\* upsert, and the write task holding the permit waits to enqueue its
\* notification.
C40_Witness ==
    /\ Blocked("llm") /\ WaitsOn("llm") = "store"
    /\ Head(gRun["llm"]).op = "send"
    /\ gHold = "notify"
    /\ ~GRoom("store")

====
